---- MODULE Spec2Model ----
(***************************************************************************)
(* Wi-Fi / HTTP upload regression harness of the meditamer repository:     *)
(*   scripts/test_wifi_upload_regression_serial.py  (serial console,       *)
(*       mode-ack protocol, network readiness, orchestrator main)          *)
(*   scripts/upload_assets_http.py                  (HTTP uploader)        *)
(*                                                                         *)
(* The module holds one state machine per component.  Every component has  *)
(* its own variables, an Init predicate, an Off predicate (the component   *)
(* is not running) and its actions.  A specification runs one component    *)
(* and keeps the others off.                                               *)
(***************************************************************************)
EXTENDS Integers, Sequences, FiniteSets, TLC

VARIABLES
    \* wait_mode_ack
    a_pc, a_attempts, a_i, a_sent, a_hist, a_result, a_slept, a_sendlog,
    \* SerialConsole._read_lines
    r_pc, r_stream, r_pos, r_prev, r_rx, r_out,
    \* wait_network_ready
    n_pc, n_ct, n_lt, n_now, n_connect_ms, n_streak, n_ready_ip, n_result, n_ret,
    n_s1, n_s2, n_p1, n_p2, n_first, n_firstpos,
    \* upload_assets_http.py: request, request_sd_busy_aware, mkdir
    u_pc, u_srv, u_job, u_opn, u_budget, u_left, u_a, u_can, u_ctx, u_k,
    u_wleft, u_outs, u_last,
    \* main() of test_wifi_upload_regression_serial.py: a record of its
    \* locals, its position and what it has done so far
    mn,
    \* RunLock: the orchestrator processes started against one device, and the lock files
    lk,
    \* run_upload, the signal handlers and the upload child process
    ch,
    \* upload_assets_http.py: main and upload_file, request by request
    fl,
    \* the session log file over the SerialConsole sessions of one run
    lg,
    \* SerialConsole.wait_regex over the batches _read_lines returns
    wt,
    \* wait_health_reachable: its locals and the probes of the last tick
    hl,
    \* request(): one call, its attempts and the body's file position
    rqst,
    \* _wait_for_network_recovery: the polls of the last recovery wait
    uh,
    \* verify_remote_file: its position, the device's unread lines and the commands sent
    vf,
    \* main, head of a cycle: the two wait_mode_ack calls and the device's unread replies
    md

ackVars == <<a_pc, a_attempts, a_i, a_sent, a_hist, a_result, a_slept, a_sendlog>>

readVars == <<r_pc, r_stream, r_pos, r_prev, r_rx, r_out>>

netVars == <<n_pc, n_ct, n_lt, n_now, n_connect_ms, n_streak, n_ready_ip, n_result,
             n_ret, n_s1, n_s2, n_p1, n_p2, n_first, n_firstpos>>

upVars == <<u_pc, u_srv, u_job, u_opn, u_budget, u_left, u_a, u_can, u_ctx,
            u_k, u_wleft, u_outs, u_last>>

vars == <<ackVars, readVars, netVars, upVars, mn, lk, ch, fl, lg, wt, hl, rqst, uh, vf, md>>

\* What the actions of one component leave alone.
ackOthers == <<readVars, netVars, upVars, mn, lk, ch, fl, lg, wt, hl, rqst, uh, vf, md>>
readOthers == <<ackVars, netVars, upVars, mn, lk, ch, fl, lg, wt, hl, rqst, uh, vf, md>>
netOthers == <<ackVars, readVars, upVars, mn, lk, ch, fl, lg, wt, hl, rqst, uh, vf, md>>
upOthers == <<ackVars, readVars, netVars, mn, lk, ch, fl, lg, wt, hl, rqst, vf, md>>
mainOthers == <<ackVars, readVars, netVars, upVars, lk, ch, fl, lg, wt, hl, rqst, uh, vf, md>>
lockOthers == <<ackVars, readVars, netVars, upVars, mn, ch, fl, lg, wt, hl, rqst, uh, vf, md>>
childOthers == <<ackVars, readVars, netVars, upVars, mn, lk, fl, lg, wt, hl, rqst, uh, vf, md>>
fileOthers == <<ackVars, readVars, netVars, upVars, mn, lk, ch, lg, wt, hl, rqst, uh, vf, md>>
logOthers == <<ackVars, readVars, netVars, upVars, mn, lk, ch, fl, wt, hl, rqst, uh, vf, md>>
waitOthers == <<ackVars, readVars, netVars, upVars, mn, lk, ch, fl, lg, hl, rqst, uh, vf, md>>
healthOthers == <<ackVars, readVars, netVars, upVars, mn, lk, ch, fl, lg, wt, rqst, uh, vf, md>>
requestOthers == <<ackVars, readVars, netVars, upVars, mn, lk, ch, fl, lg, wt, hl, uh, vf, md>>
verifyOthers == <<ackVars, readVars, netVars, upVars, mn, lk, ch, fl, lg, wt, hl, rqst, uh, md>>
modeOthers == <<ackVars, readVars, netVars, upVars, mn, lk, ch, fl, lg, wt, hl, rqst, uh, vf>>

(***************************************************************************)
(* Console lines.  A line is a sequence of blank-separated tokens; the     *)
(* empty sequence stands for Python's None (no line matched).              *)
(***************************************************************************)
NoLine == <<>>

\* Replies the firmware gives to MODE UPLOAD ON|OFF, plus lines of other
\* commands that may be interleaved on the console.
ModeReplies ==
    { <<"MODE", "OK">>,
      <<"MODE", "BUSY">>,
      <<"MODE", "ERR", "reason=timeout">>,
      <<"MODE", "ERR", "reason=state">> }

OtherLines == { <<"WIFISET", "OK">>, <<"PONG">> }

ConsoleLines == ModeReplies \cup OtherLines

\* Python's  `needle in line`  for a needle made of whole tokens.
Contains(line, needle) ==
    \E k \in 0..(Len(line) - Len(needle)) :
        \A j \in 1..Len(needle) : line[k + j] = needle[j]

\* re.search(rf"^{tag} (OK|BUSY|ERR)", line)
MatchesAck(line, tag) ==
    /\ Len(line) >= 2
    /\ line[1] = tag
    /\ line[2] \in {"OK", "BUSY", "ERR"}

\* SerialConsole.wait_regex: the first line of the lines read before the
\* deadline that matches, or None.
RECURSIVE FirstMatch(_, _)
FirstMatch(lines, tag) ==
    IF lines = <<>> THEN NoLine
    ELSE IF MatchesAck(Head(lines), tag) THEN Head(lines)
    ELSE FirstMatch(Tail(lines), tag)

(***************************************************************************)
(* wait_mode_ack(console, command, tag, attempts)                          *)
(***************************************************************************)
MaxAttempts == 3
MaxWindow == 2

\* The lines the console delivers within one 4 s wait window.
Windows == UNION { [1..n -> ConsoleLines] : n \in 0..MaxWindow }

\* What one loop iteration decides from the line command_wait returned.
AckClassify_FatalTimeout(line, tag) ==
    IF line = NoLine THEN "continue"
    ELSE IF Contains(line, <<tag, "OK">>) THEN "true"
    ELSE IF Contains(line, <<tag, "ERR">>) THEN "false"
    ELSE "sleep"

AckClassify_BusyIsOk(line, tag) ==
    IF line = NoLine THEN "continue"
    ELSE IF Contains(line, <<tag, "OK">>) \/ Contains(line, <<tag, "BUSY">>) THEN "true"
    ELSE IF Contains(line, <<tag, "ERR">>)
         THEN IF Contains(line, <<"reason=timeout">>) THEN "sleep" ELSE "false"
    ELSE "sleep"

AckClassify(line, tag) ==
    IF line = NoLine THEN "continue"
    ELSE IF Contains(line, <<tag, "OK">>) THEN "true"
    ELSE IF Contains(line, <<tag, "ERR">>)
         THEN IF Contains(line, <<"reason=timeout">>) THEN "sleep" ELSE "false"
    ELSE "sleep"

AckTag == "MODE"

AckInit ==
    /\ a_pc = "send"
    /\ a_attempts \in 1..MaxAttempts
    /\ a_i = 0
    /\ a_sent = 0
    /\ a_hist = <<>>
    /\ a_result = "none"
    /\ a_slept = 0
    /\ a_sendlog = <<>>

AckOff ==
    /\ a_pc = "off"
    /\ a_attempts = 0
    /\ a_i = 0
    /\ a_sent = 0
    /\ a_hist = <<>>
    /\ a_result = "none"
    /\ a_slept = 0
    /\ a_sendlog = <<>>

\* for _ in range(attempts): console.send_line(command)
AckSend ==
    /\ a_pc = "send"
    /\ a_i < a_attempts
    /\ a_sent' = a_sent + 1
    /\ a_sendlog' = Append(a_sendlog, a_slept)
    /\ a_pc' = "wait"
    /\ UNCHANGED <<a_attempts, a_i, a_hist, a_result, a_slept, ackOthers>>

\* range(attempts) is exhausted: return False
AckExhausted ==
    /\ a_pc = "send"
    /\ a_i >= a_attempts
    /\ a_result' = "false"
    /\ a_pc' = "done"
    /\ UNCHANGED <<a_attempts, a_i, a_sent, a_hist, a_slept, a_sendlog, ackOthers>>

\* line, _ = wait_regex(...); the if-chain of the loop body
AckWait ==
    /\ a_pc = "wait"
    /\ \E w \in Windows :
        LET line == FirstMatch(w, AckTag)
            what == AckClassify(line, AckTag)
        IN  /\ a_hist' = Append(a_hist, line)
            /\ CASE what = "true"     -> a_result' = "true" /\ a_pc' = "done" /\ a_i' = a_i
                 [] what = "false"    -> a_result' = "false" /\ a_pc' = "done" /\ a_i' = a_i
                 [] what = "sleep"    -> a_result' = a_result /\ a_pc' = "sleep" /\ a_i' = a_i
                 [] what = "continue" -> a_result' = a_result /\ a_pc' = "send" /\ a_i' = a_i + 1
    /\ UNCHANGED <<a_attempts, a_sent, a_slept, a_sendlog, ackOthers>>

\* time.sleep(1); continue
AckSleep ==
    /\ a_pc = "sleep"
    /\ a_slept' = a_slept + 1
    /\ a_i' = a_i + 1
    /\ a_pc' = "send"
    /\ UNCHANGED <<a_attempts, a_sent, a_hist, a_result, a_sendlog, ackOthers>>

AckNext == AckSend \/ AckExhausted \/ AckWait \/ AckSleep

(***************************************************************************)
(* SerialConsole._read_lines(timeout)                                      *)
(* Bytes are "A", "B", "C" (printable), "SP" (blank), "CR" and "LF".       *)
(***************************************************************************)
MaxStream == 4

Bytes == {"A", "B", "C", "SP", "CR", "LF"}

Streams == UNION { [1..n -> Bytes] : n \in 0..MaxStream }

\* chunk.replace(b"\r", b"\n")
ReplaceCR(chunk) ==
    [i \in 1..Len(chunk) |-> IF chunk[i] = "CR" THEN "LF" ELSE chunk[i]]

\* self._rx.find(b"\n"): the 1-based index of the first LF, 0 when there is none
FindLF(buf) ==
    IF \E i \in 1..Len(buf) : buf[i] = "LF"
    THEN CHOOSE i \in 1..Len(buf) :
            /\ buf[i] = "LF"
            /\ \A j \in 1..(i - 1) : buf[j] # "LF"
    ELSE 0

\* str.strip(): leading and trailing blanks removed
RECURSIVE StripLeft(_)
StripLeft(s) ==
    IF s # <<>> /\ Head(s) = "SP" THEN StripLeft(Tail(s)) ELSE s

RECURSIVE StripRight(_)
StripRight(s) ==
    IF s # <<>> /\ s[Len(s)] = "SP" THEN StripRight(SubSeq(s, 1, Len(s) - 1)) ELSE s

Strip(s) == StripRight(StripLeft(s))

\* The while-loop of _read_lines: takes the complete lines out of the
\* buffer.  Result: the buffer left and the lines appended.
RECURSIVE SplitBuffer(_, _)
SplitBuffer(buf, lines) ==
    LET idx == FindLF(buf)
    IN  IF idx = 0 THEN [rx |-> buf, lines |-> lines]
        ELSE LET raw  == SubSeq(buf, 1, idx - 1)
                 rest == SubSeq(buf, idx + 1, Len(buf))
                 line == Strip(raw)
             IN  IF raw = <<>> \/ line = <<>>
                 THEN SplitBuffer(rest, lines)
                 ELSE SplitBuffer(rest, Append(lines, line))

\* One call with `chunk` read from the descriptor (empty: select timed out,
\* or os.read returned nothing).
ReadLines_DropPartial(rx, chunk) ==
    IF chunk = <<>> THEN [rx |-> rx, lines |-> <<>>]
    ELSE [rx |-> <<>>, lines |-> SplitBuffer(rx \o ReplaceCR(chunk), <<>>).lines]

ReadLines(rx, chunk) ==
    IF chunk = <<>> THEN [rx |-> rx, lines |-> <<>>]
    ELSE SplitBuffer(rx \o ReplaceCR(chunk), <<>>)

ReadInit ==
    /\ r_pc = "run"
    /\ r_stream \in Streams
    /\ r_pos = 0
    /\ r_prev = 0
    /\ r_rx = <<>>
    /\ r_out = <<>>

ReadOff ==
    /\ r_pc = "off"
    /\ r_stream = <<>>
    /\ r_pos = 0
    /\ r_prev = 0
    /\ r_rx = <<>>
    /\ r_out = <<>>

\* One call of _read_lines: the descriptor holds some prefix of the bytes
\* not yet read (none: the select times out).
ReadCall ==
    /\ r_pc = "run"
    /\ \E n \in 0..(Len(r_stream) - r_pos) :
        LET got == ReadLines(r_rx, SubSeq(r_stream, r_pos + 1, r_pos + n))
        IN  /\ r_rx' = got.rx
            /\ r_out' = r_out \o got.lines
            /\ r_prev' = r_pos
            /\ r_pos' = r_pos + n
    /\ UNCHANGED <<r_pc, r_stream, readOthers>>

ReadNext == ReadCall

(***************************************************************************)
(* query_metrics_net and wait_network_ready(console, connect_timeout_s,    *)
(* listen_timeout_s).  Time is counted in ticks since `started`; now_ms is *)
(* the tick count at the end of the query.                                 *)
(***************************************************************************)
MaxCT == 2
MaxLT == 4
MaxQuery == 1

ZeroIp == "0.0.0.0"

Ips == {ZeroIp, "10.0.0.5", "10.0.0.9"}

\* (wifi_connected, http_listening, ip) parsed by query_metrics_net
Samples == [wifi : {0, 1}, listening : {0, 1}, ip : Ips]

\* query_metrics_net returned None (no METRICS NET line within its timeout)
NoSample == [wifi |-> 0, listening |-> 0, ip |-> "none"]

\* if wifi_connected and connect_ms == 0: connect_ms = now_ms
NetConnectMs_Last(connect_ms, wifi, now_ms) ==
    IF wifi # 0 THEN now_ms ELSE connect_ms

NetConnectMs(connect_ms, wifi, now_ms) ==
    IF wifi # 0 /\ connect_ms = 0 THEN now_ms ELSE connect_ms

\* The streak bookkeeping of one sample: ready_streak and ready_ip after it.
NetStreak_AnyIp(streak, ready_ip, listening, ip) ==
    IF listening # 0 /\ ip # ZeroIp
    THEN [streak |-> streak + 1, ip |-> ip]
    ELSE [streak |-> 0, ip |-> ""]

NetStreak(streak, ready_ip, listening, ip) ==
    IF listening # 0 /\ ip # ZeroIp
    THEN IF ip = ready_ip
         THEN [streak |-> streak + 1, ip |-> ready_ip]
         ELSE [streak |-> 1, ip |-> ip]
    ELSE [streak |-> 0, ip |-> ""]

NoRet == [connect_ms |-> -1, listen_ms |-> -1, ip |-> ""]

NetInit ==
    /\ n_pc = "poll"
    /\ n_ct \in 1..MaxCT
    /\ n_lt \in 1..MaxLT
    /\ n_now = 0
    /\ n_connect_ms = 0
    /\ n_streak = 0
    /\ n_ready_ip = ""
    /\ n_result = "none"
    /\ n_ret = NoRet
    /\ n_s1 = NoSample
    /\ n_s2 = NoSample
    /\ n_p1 = NoSample
    /\ n_p2 = NoSample
    /\ n_first = -1
    /\ n_firstpos = -1

NetOff ==
    /\ n_pc = "off"
    /\ n_ct = 0
    /\ n_lt = 0
    /\ n_now = 0
    /\ n_connect_ms = 0
    /\ n_streak = 0
    /\ n_ready_ip = ""
    /\ n_result = "none"
    /\ n_ret = NoRet
    /\ n_s1 = NoSample
    /\ n_s2 = NoSample
    /\ n_p1 = NoSample
    /\ n_p2 = NoSample
    /\ n_first = -1
    /\ n_firstpos = -1

\* One loop iteration in which query_metrics_net returned nothing:
\* `if not metrics: time.sleep(1); continue`
NetPollNone ==
    /\ n_pc = "poll"
    /\ n_now < n_lt
    /\ \E d \in 0..MaxQuery :
        /\ n_now' = n_now + d
    /\ n_p1' = n_p2
    /\ n_p2' = NoSample
    /\ n_pc' = "sleep"
    /\ UNCHANGED <<n_ct, n_lt, n_connect_ms, n_streak, n_ready_ip, n_result, n_ret,
                   n_s1, n_s2, n_first, n_firstpos, netOthers>>

\* One loop iteration with a sample: lines 427-445
NetPollSample ==
    /\ n_pc = "poll"
    /\ n_now < n_lt
    /\ \E d \in 0..MaxQuery, m \in Samples :
        LET now_ms == n_now + d
            c1     == NetConnectMs(n_connect_ms, m.wifi, now_ms)
            st     == NetStreak(n_streak, n_ready_ip, m.listening, m.ip)
            ready  == m.listening # 0 /\ m.ip # ZeroIp /\ st.streak >= 2
            c2     == IF ready /\ c1 = 0 THEN now_ms ELSE c1
        IN  /\ n_now' = now_ms
            /\ n_connect_ms' = c2
            /\ n_streak' = st.streak
            /\ n_ready_ip' = st.ip
            /\ n_p1' = n_p2
            /\ n_p2' = m
            /\ n_s1' = n_s2
            /\ n_s2' = m
            /\ n_first' = IF n_first = -1 /\ m.wifi # 0 THEN now_ms ELSE n_first
            /\ n_firstpos' = IF n_firstpos = -1 /\ m.wifi # 0 /\ now_ms > 0
                             THEN now_ms ELSE n_firstpos
            /\ IF ready
               THEN /\ n_result' = "ready"
                    /\ n_ret' = [connect_ms |-> c2, listen_ms |-> now_ms, ip |-> m.ip]
                    /\ n_pc' = "done"
               ELSE IF c2 = 0 /\ now_ms > n_ct
               THEN /\ n_result' = "connect_timeout"
                    /\ n_ret' = n_ret
                    /\ n_pc' = "done"
               ELSE /\ n_result' = n_result
                    /\ n_ret' = n_ret
                    /\ n_pc' = "sleep"
    /\ UNCHANGED <<n_ct, n_lt, netOthers>>

\* time.sleep(1)
NetSleep ==
    /\ n_pc = "sleep"
    /\ n_now' = n_now + 1
    /\ n_pc' = "poll"
    /\ UNCHANGED <<n_ct, n_lt, n_connect_ms, n_streak, n_ready_ip, n_result, n_ret,
                   n_s1, n_s2, n_p1, n_p2, n_first, n_firstpos, netOthers>>

\* the while condition fails: raise "upload server did not start"
NetListenTimeout ==
    /\ n_pc = "poll"
    /\ n_now >= n_lt
    /\ n_result' = "listen_timeout"
    /\ n_pc' = "done"
    /\ UNCHANGED <<n_ct, n_lt, n_now, n_connect_ms, n_streak, n_ready_ip, n_ret,
                   n_s1, n_s2, n_p1, n_p2, n_first, n_firstpos, netOthers>>

NetNext == NetPollNone \/ NetPollSample \/ NetSleep \/ NetListenTimeout

(***************************************************************************)
(* upload_assets_http.py: request, request_sd_busy_aware,                  *)
(* _wait_for_network_recovery, mkdir.  Time is counted in units of 50 ms.  *)
(***************************************************************************)
MaxBudgetSteps == 1
MaxHttpTime == 3

\* What one HTTP exchange ends with: a 2xx response, "409 Conflict ... sd
\* busy", "408 Request Timeout", another non-2xx response, or a connection
\* failure (refused, reset, timeout, socket error).
Replies == {"200", "409busy", "408", "other", "conn"}

\* range(10_000)
LoopCap == 10000

\* max(1.0, UPLOAD_SD_BUSY_TOTAL_RETRY_S), for settings of 1 s and more
Budgets == {20 + 60 * e : e \in 0..MaxBudgetSteps}

\* UPLOAD_NET_RECOVERY_TIMEOUT_S (45 s) and UPLOAD_NET_RECOVERY_POLL_S (0.8 s)
RecoveryWindow == 900
RecoveryPoll == 16

\* request(): retry_delay (0.2 s); request_sd_busy_aware: 0.25 s per attempt
RetryDelay == 4
BusyDelay == 5

\* The operations of a job: what is requested, request's `retries` and
\* request_sd_busy_aware's `busy_retries`.
MkdirOp == [target |-> "/mkdir", retries |-> 8, busy_retries |-> 8]
PutOp == [target |-> "/upload", retries |-> 4, busy_retries |-> 6]

JobOps(job) ==
    IF job = "mkdir_twice" THEN <<MkdirOp, MkdirOp>> ELSE <<PutOp>>

CurOp == JobOps(u_job)[u_opn]

Max(a, b) == IF a >= b THEN a ELSE b
Min(a, b) == IF a <= b THEN a ELSE b

\* attempts = max(1, retries) of request(), by its caller: the operation
\* itself, the best-effort /upload_abort (retries=2), the /health poll
\* (retries=1)
CtxRetries(ctx) ==
    IF ctx = "main" THEN Max(1, CurOp.retries)
    ELSE IF ctx = "abort" THEN 2
    ELSE 1

\* attempts = max(1, busy_retries)
BusyAttempts_OneLess == Max(1, CurOp.busy_retries - 1)

BusyAttempts == Max(1, CurOp.busy_retries)

\* can_retry = retries_remaining or time_remaining
CanRetry_Always(attempt, attempts, now, deadline) == TRUE

CanRetry(attempt, attempts, now, deadline) ==
    (attempt + 1 < attempts) \/ (now < deadline)

\* What request_sd_busy_aware does with the end of request() for the
\* operation itself.
BusyClassify_SwallowOther(reply) ==
    IF reply \in {"200", "other"} THEN "return"
    ELSE IF reply \in {"conn", "408"} THEN "recover"
    ELSE "abort"

BusyClassify(reply) ==
    IF reply = "200" THEN "return"
    ELSE IF reply \in {"conn", "408"} THEN "recover"
    ELSE IF reply = "409busy" THEN "abort"
    ELSE "raise"

\* The replies the server can give.
ServerReplies == IF u_srv = "always409" THEN {"409busy"} ELSE Replies

HttpTimes == {0, MaxHttpTime}

\* Time is kept relative to the two deadlines: u_left is
\* max(0, deadline - time.monotonic()) of request_sd_busy_aware, u_wleft the
\* same for the deadline of _wait_for_network_recovery.
Elapse(left, d) == IF left > d THEN left - d ELSE 0

\* window_s = min(UPLOAD_NET_RECOVERY_TIMEOUT_S,
\*                max(0.0, deadline - time.monotonic()))
WindowFor_Uncapped(left) == RecoveryWindow

WindowFor(left) == Min(RecoveryWindow, left)

\* The GET /health polls of the last _wait_for_network_recovery call and
\* whether the last of them was answered (`return True`).
PollStart == [polls |-> 0, answered |-> FALSE]

PollOff == uh = PollStart

UpInit ==
    /\ u_pc = "enter"
    /\ u_srv \in {"any", "always409"}
    /\ u_job \in {"mkdir_twice", "put"}
    /\ u_opn = 1
    /\ u_budget \in Budgets
    /\ u_left = 0
    /\ u_a = 0
    /\ u_can = FALSE
    /\ u_ctx = "main"
    /\ u_k = 0
    /\ u_wleft = 0
    /\ u_outs = <<>>
    /\ u_last = "none"

UpOff ==
    /\ u_pc = "off"
    /\ u_srv = "any"
    /\ u_job = "none"
    /\ u_opn = 1
    /\ u_budget = 0
    /\ u_left = 0
    /\ u_a = 0
    /\ u_can = FALSE
    /\ u_ctx = "main"
    /\ u_k = 0
    /\ u_wleft = 0
    /\ u_outs = <<>>
    /\ u_last = "none"

\* request_sd_busy_aware is entered:
\* deadline = time.monotonic() + max(1.0, UPLOAD_SD_BUSY_TOTAL_RETRY_S)
UpEnter ==
    /\ u_pc = "enter"
    /\ u_left' = u_budget
    /\ u_a' = 0
    /\ u_last' = "none"
    /\ u_pc' = "top"
    /\ UNCHANGED <<u_srv, u_job, u_opn, u_budget, u_can, u_ctx, u_k, u_wleft,
                   u_outs, uh, upOthers>>

\* Top of the loop: can_retry is computed, then request() is entered.
UpTop ==
    /\ u_pc = "top"
    /\ u_can' = CanRetry(u_a, BusyAttempts, 0, u_left)
    /\ u_ctx' = "main"
    /\ u_k' = 0
    /\ u_pc' = "req"
    /\ UNCHANGED <<u_srv, u_job, u_opn, u_budget, u_left, u_a, u_wleft,
                   u_outs, u_last, uh, upOthers>>

\* request(): a connection failure with attempts left; the sleep follows.
UpHttpRetry ==
    /\ u_pc = "req"
    /\ "conn" \in ServerReplies
    /\ u_k + 1 < CtxRetries(u_ctx)
    /\ \E d \in HttpTimes :
        /\ u_left' = Elapse(u_left, d)
        /\ u_wleft' = Elapse(u_wleft, d)
    /\ u_pc' = "reqsleep"
    /\ UNCHANGED <<u_srv, u_job, u_opn, u_budget, u_a, u_can, u_ctx, u_k,
                   u_outs, u_last, uh, upOthers>>

\* time.sleep(retry_delay * (attempt + 1)), next attempt of request()
UpReqSleep ==
    /\ u_pc = "reqsleep"
    /\ u_left' = Elapse(u_left, RetryDelay * (u_k + 1))
    /\ u_wleft' = Elapse(u_wleft, RetryDelay * (u_k + 1))
    /\ u_k' = u_k + 1
    /\ u_pc' = "req"
    /\ UNCHANGED <<u_srv, u_job, u_opn, u_budget, u_a, u_can, u_ctx,
                   u_outs, u_last, uh, upOthers>>

\* The exchanges that end request(): any response, or a connection failure
\* on the last attempt.
EndsRequest(reply) == reply # "conn" \/ u_k + 1 >= CtxRetries(u_ctx)

\* request() for the operation ends; the try/except of request_sd_busy_aware.
UpMainEnd ==
    /\ u_pc = "req"
    /\ u_ctx = "main"
    /\ \E reply \in ServerReplies, d \in HttpTimes :
        LET left == Elapse(u_left, d)
            what == BusyClassify(reply)
        IN  /\ EndsRequest(reply)
            /\ u_left' = left
            /\ u_last' = reply
            /\ uh' = IF what = "recover" /\ u_can THEN PollStart ELSE uh
            /\ CASE what = "return" ->
                        /\ u_outs' = Append(u_outs, "ok")
                        /\ u_pc' = "next"
                        /\ UNCHANGED <<u_ctx, u_k, u_wleft>>
                 [] what = "raise" ->
                        /\ u_outs' = Append(u_outs, "raise_other")
                        /\ u_pc' = "next"
                        /\ UNCHANGED <<u_ctx, u_k, u_wleft>>
                 [] what = "abort" ->
                        \* best-effort POST /upload_abort, retries=2
                        /\ u_ctx' = "abort"
                        /\ u_k' = 0
                        /\ u_pc' = "req"
                        /\ UNCHANGED <<u_outs, u_wleft>>
                 [] what = "recover" ->
                        IF ~u_can
                        THEN /\ u_outs' = Append(u_outs, "raise_" \o reply)
                             /\ u_pc' = "next"
                             /\ UNCHANGED <<u_ctx, u_k, u_wleft>>
                        ELSE \* _wait_for_network_recovery(window_s=
                             \*   min(RECOVERY_TIMEOUT, max(0.0, deadline - now)))
                             \* `if window_s <= 0: return False`
                             LET window == WindowFor(left)
                             IN  /\ u_wleft' = window
                                 /\ u_pc' = IF window <= 0 THEN "bsleep" ELSE "recov"
                                 /\ UNCHANGED <<u_ctx, u_k, u_outs>>
    /\ UNCHANGED <<u_srv, u_job, u_opn, u_budget, u_a, u_can, upOthers>>

\* The /upload_abort request ends (its failure is passed over):
\* `if not can_retry: raise`, else the sleep.
UpAbortEnd ==
    /\ u_pc = "req"
    /\ u_ctx = "abort"
    /\ \E reply \in ServerReplies, d \in HttpTimes :
        /\ EndsRequest(reply)
        /\ u_left' = Elapse(u_left, d)
    /\ IF ~u_can
       THEN /\ u_outs' = Append(u_outs, "raise_409busy")
            /\ u_pc' = "next"
       ELSE /\ u_outs' = u_outs
            /\ u_pc' = "bsleep"
    /\ UNCHANGED <<u_srv, u_job, u_opn, u_budget, u_a, u_can, u_ctx, u_k,
                   u_wleft, u_last, uh, upOthers>>

\* _wait_for_network_recovery: `while time.monotonic() < deadline`
UpRecov ==
    /\ u_pc = "recov"
    /\ IF u_wleft > 0
       THEN /\ u_ctx' = "recover"
            /\ u_k' = 0
            /\ u_pc' = "req"
       ELSE /\ u_pc' = "bsleep"
            /\ UNCHANGED <<u_ctx, u_k>>
    /\ UNCHANGED <<u_srv, u_job, u_opn, u_budget, u_left, u_a, u_can,
                   u_wleft, u_outs, u_last, uh, upOthers>>

\* The GET /health of the recovery poll ends: return True, or
\* time.sleep(UPLOAD_NET_RECOVERY_POLL_S).
UpHealthEnd ==
    /\ u_pc = "req"
    /\ u_ctx = "recover"
    /\ \E reply \in ServerReplies, d \in HttpTimes :
        /\ EndsRequest(reply)
        /\ uh' = [polls |-> uh.polls + 1, answered |-> (reply = "200")]
        /\ IF reply = "200"
           THEN /\ u_left' = Elapse(u_left, d)
                /\ u_wleft' = Elapse(u_wleft, d)
                /\ u_pc' = "bsleep"
           ELSE /\ u_left' = Elapse(u_left, d + RecoveryPoll)
                /\ u_wleft' = Elapse(u_wleft, d + RecoveryPoll)
                /\ u_pc' = "recov"
    /\ UNCHANGED <<u_srv, u_job, u_opn, u_budget, u_a, u_can, u_ctx, u_k,
                   u_outs, u_last, upOthers>>

\* time.sleep(0.25 * (attempt + 1)); continue.  The loop ends after
\* 10_000 rounds with "sd busy persisted".
UpBusySleep ==
    /\ u_pc = "bsleep"
    /\ u_left' = Elapse(u_left, BusyDelay * (u_a + 1))
    /\ u_a' = u_a + 1
    /\ IF u_a + 1 >= LoopCap
       THEN /\ u_outs' = Append(u_outs, "raise_persisted")
            /\ u_pc' = "next"
       ELSE /\ u_outs' = u_outs
            /\ u_pc' = "top"
    /\ UNCHANGED <<u_srv, u_job, u_opn, u_budget, u_can, u_ctx, u_k,
                   u_wleft, u_last, uh, upOthers>>

\* The caller: the next operation of the job follows one that returned; an
\* exception ends the job.
UpNextOp ==
    /\ u_pc = "next"
    /\ IF u_outs[Len(u_outs)] = "ok" /\ u_opn < Len(JobOps(u_job))
       THEN /\ u_opn' = u_opn + 1
            /\ u_pc' = "enter"
       ELSE /\ u_opn' = u_opn
            /\ u_pc' = "done"
    /\ UNCHANGED <<u_srv, u_job, u_budget, u_left, u_a, u_can, u_ctx, u_k,
                   u_wleft, u_outs, u_last, uh, upOthers>>

UpNext ==
    \/ UpEnter
    \/ UpTop
    \/ UpHttpRetry
    \/ UpReqSleep
    \/ UpMainEnd
    \/ UpAbortEnd
    \/ UpRecov
    \/ UpHealthEnd
    \/ UpBusySleep
    \/ UpNextOp

(***************************************************************************)
(* serial_preflight and main() of test_wifi_upload_regression_serial.py.   *)
(* The functions main calls are taken by their outcomes: what they return  *)
(* or that they raise.                                                     *)
(***************************************************************************)
MaxCycles == 2
MaxOpRetries == 2

\* for attempt in range(1, 4)
PreflightAttempts == 3

\* if len(remote_file) > 64
SdPathMax == 64

\* len("/assets/u"), the default WIFI_UPLOAD_REMOTE_ROOT
RootLen == 9

\* Lengths of the payload file name: "u.bin", and two long names
NameLens == {5, 46, 47}

\* len(str(cycle))
Digits(n) == IF n < 10 THEN 1 ELSE IF n < 100 THEN 2 ELSE 3

\* len(f"{remote_root}/cycle-{cycle}/{name}")
RemoteFileLen(cycle, namelen) == RootLen + 7 + Digits(cycle) + 1 + namelen

NoErr == [kind |-> "none", reason |-> ""]

MainStart ==
    [pc |-> "config", cfg |-> "unread", acquired |-> FALSE, cycles |-> 1, retries |-> 1, namelen |-> 5,
     allow_reset |-> TRUE, cycle |-> 1, attempt |-> 1, rows |-> <<>>,
     upload_ms |-> 0, last_err |-> FALSE, exit |-> -1, err |-> NoErr,
     console |-> "none", pfcon |-> "none", opens |-> 0, pf_attempt |-> 1,
     pf_last |-> "unknown", pf_ret |-> "cycle", resets |-> 0, netio |-> FALSE,
     lock |-> "none", fails |-> 0, pongs |-> 0, openfail |-> FALSE,
     up_ok |-> FALSE, ver_ok |-> FALSE, handled |-> FALSE, ph |-> <<>>,
     unlocked |-> {}]

MainInit ==
    \E c \in 1..MaxCycles, r \in 1..MaxOpRetries, n \in NameLens, a \in BOOLEAN :
        mn = [MainStart EXCEPT !.cycles = c, !.retries = r, !.namelen = n,
                              !.allow_reset = a]

MainOff == mn = [MainStart EXCEPT !.pc = "off"]

\* An exception leaves the try block of main.
Raise(st, kind, reason) ==
    [st EXCEPT !.pc = "except", !.err = [kind |-> kind, reason |-> reason],
               !.fails = @ + 1]

\* What the environment holds when main reads it: everything valid,
\* ESPFLASH_PORT unset or blank, or a numeric setting that is no positive
\* integer.
Environments == {"ok", "no_port", "bad_int"}

\* main before the try block: `if not port: raise SystemExit("ESPFLASH_PORT
\* must be set")` (a SystemExit carrying a string ends the process with
\* status 1), and the env_int calls, whose ValueError nothing catches (the
\* interpreter prints the traceback and ends with status 1).
MainConfig ==
    /\ mn.pc = "config"
    /\ \E env \in Environments :
        mn' = IF env = "ok"
              THEN [mn EXCEPT !.cfg = env, !.pc = "detect_mac"]
              ELSE [mn EXCEPT !.cfg = env, !.exit = 1, !.pc = "exit",
                              !.err = [kind |-> IF env = "no_port"
                                                THEN "ESPFLASH_PORT must be set"
                                                ELSE "ValueError",
                                       reason |-> ""]]
    /\ UNCHANGED mainOthers

\* Records in st.unlocked an action on the device or on a file that other
\* runs share, when it is performed while this run does not hold the lock.
Touch(st, what) ==
    IF st.lock = "held" THEN st ELSE [st EXCEPT !.unlocked = @ \cup what]

\* How detect_device_mac gets the MAC: WIFI_UPLOAD_DEVICE_MAC is set, or
\* espflash board-info is run on the port, followed (also when it fails) by
\* espflash_reset_run_mode unless WIFI_UPLOAD_RESET_AFTER_BOARD_INFO is "0".
MacSources == {"configured", "board_info", "board_info_no_reset"}

\* mac = detect_device_mac(port)
MainDetectMac ==
    /\ mn.pc = "detect_mac"
    /\ \E how \in MacSources :
        mn' = [Touch(mn, CASE how = "configured" -> {}
                           [] how = "board_info" -> {"board_info", "reset"}
                           [] OTHER -> {"board_info"})
               EXCEPT !.pc = "payload"]
    /\ UNCHANGED mainOthers

\* Path(payload_path).write_bytes(data); an OSError here is outside the try
\* block and ends the process with status 1.
MainPayload ==
    /\ mn.pc = "payload"
    /\ \/ mn' = [Touch(mn, {"payload"}) EXCEPT !.pc = "acquire"]
       \/ mn' = [mn EXCEPT !.exit = 1, !.pc = "exit", !.fails = @ + 1,
                           !.err = [kind |-> "OSError", reason |-> "payload"]]
    /\ UNCHANGED mainOthers

\* lock.acquire()
MainAcquire ==
    /\ mn.pc = "acquire"
    /\ \/ mn' = [mn EXCEPT !.lock = "held", !.acquired = TRUE, !.pc = "pf_open", !.pf_ret = "cycle",
                         !.pf_attempt = 1, !.opens = 0, !.pf_last = "unknown"]
       \/ mn' = Raise([mn EXCEPT !.lock = "failed"], "another run is active", "")
    /\ UNCHANGED mainOthers

\* serial_preflight: console = SerialConsole(port, baud, log_path)
PfOpen ==
    /\ mn.pc = "pf_open"
    /\ \/ mn' = [Touch(mn, {"serial_open"}) EXCEPT !.pfcon = "open", !.opens = @ + 1,
                                                   !.pc = "pf_probe"]
       \/ mn' = Raise([mn EXCEPT !.openfail = TRUE], "OSError", "open")
    /\ UNCHANGED mainOthers

\* serial_preflight: the try block around command_wait("PING", ...)
PfProbe ==
    /\ mn.pc = "pf_probe"
    /\ \E got \in {"PONG", "no PONG", "device stuck in ROM download boot", "OSError"} :
        IF got = "PONG"
        THEN mn' = [mn EXCEPT !.console = "open", !.pfcon = "none", !.pongs = @ + 1,
                            !.ph = IF mn.pf_ret = "cycle" THEN @ ELSE Append(@, "preflight"),
                            !.pc = IF mn.pf_ret = "cycle" THEN "cycle" ELSE "rec_mode_on2"]
        ELSE mn' = [mn EXCEPT !.pf_last = got, !.pc = "pf_close"]
    /\ UNCHANGED mainOthers

\* The attempts of serial_preflight are used up after this one.
PfExhausted_Two(attempt) == attempt >= PreflightAttempts - 1

PfExhausted(attempt) == attempt >= PreflightAttempts

\* serial_preflight: console.close(); espflash reset; sleep; next attempt,
\* or raise RuntimeError(f"serial preflight failed: {last_error}")
PfClose ==
    /\ mn.pc = "pf_close"
    /\ LET st == [mn EXCEPT !.pfcon = "none",
                           !.resets = IF mn.allow_reset THEN @ + 1 ELSE @]
       IN  IF PfExhausted(mn.pf_attempt)
           THEN mn' = Raise(st, "serial preflight failed", mn.pf_last)
           ELSE mn' = [st EXCEPT !.pf_attempt = @ + 1, !.pc = "pf_open"]
    /\ UNCHANGED mainOthers

\* for cycle in range(1, cycles + 1)
MoreCycles_SkipLast(cycle, cycles) == cycle < cycles

MoreCycles(cycle, cycles) == cycle <= cycles

\* Head of the cycle loop; after the last cycle the summary is printed and
\* main returns 0.
MainCycle ==
    /\ mn.pc = "cycle"
    /\ IF MoreCycles(mn.cycle, mn.cycles)
       THEN mn' = [mn EXCEPT !.pc = IF mn.cycle > 1 THEN "mode_off" ELSE "mode_on",
                           !.up_ok = FALSE, !.ver_ok = FALSE, !.ph = <<>>]
       ELSE mn' = [mn EXCEPT !.exit = 0, !.pc = "fin_term"]
    /\ UNCHANGED mainOthers

\* if cycle > 1: wait_mode_ack(console, "MODE UPLOAD OFF", "MODE", 12)
MainModeOff ==
    /\ mn.pc = "mode_off"
    /\ \/ mn' = [mn EXCEPT !.pc = "mode_on", !.ph = Append(@, "mode_off")]
       \/ mn' = [mn EXCEPT !.pc = "mode_on", !.fails = @ + 1,
                          !.ph = Append(@, "mode_off")]
    /\ UNCHANGED mainOthers

\* `if not wait_mode_ack(console, "MODE UPLOAD ON", "MODE", 20): raise`,
\* by what wait_mode_ack returned
ModeOnProceeds_Always(acked) == TRUE

ModeOnProceeds(acked) == acked

\* The phases of the current cycle in the order they ended, kept in mn.ph:
\* an acknowledged or unacknowledged mode command, a phase that
\* succeeded, an upload attempt that failed, a health recheck that failed.
Phase(st, name) == [st EXCEPT !.ph = Append(@, name)]

MainModeOn ==
    /\ mn.pc = "mode_on"
    /\ \E acked \in BOOLEAN :
        LET st == Phase(mn, IF acked THEN "mode_on" ELSE "mode_on_nack")
        IN  mn' = IF ModeOnProceeds(acked) THEN [st EXCEPT !.pc = "wifiset"]
                  ELSE Raise(st, "MODE UPLOAD ON did not return OK", "")
    /\ UNCHANGED mainOthers

\* maybe_wifiset(console, ssid, password)
MainWifiset ==
    /\ mn.pc = "wifiset"
    /\ \/ mn' = [Phase(mn, "wifiset") EXCEPT !.pc = "net_ready"]
       \/ mn' = Raise(mn, "WIFISET failed", "")
    /\ UNCHANGED mainOthers

\* connect_ms, listen_ms, metrics_ip = wait_network_ready(...)
MainNetReady ==
    /\ mn.pc = "net_ready"
    /\ \/ mn' = [Phase(mn, "net_ready") EXCEPT !.pc = "health"]
       \/ \E kind \in {"wifi did not connect", "upload server did not start"} :
            mn' = Raise(mn, kind, "")
    /\ UNCHANGED mainOthers

\* ip = wait_health_reachable(...): GET /health is sent to the candidates
MainHealth ==
    /\ mn.pc = "health"
    /\ \/ mn' = [Phase(mn, "health") EXCEPT !.netio = TRUE, !.pc = "path_check"]
       \/ mn' = Raise([mn EXCEPT !.netio = TRUE], "/health did not respond", "")
    /\ UNCHANGED mainOthers

\* if len(remote_file) > 64: raise RuntimeError("remote path exceeds ...")
MainPathCheck ==
    /\ mn.pc = "path_check"
    /\ IF RemoteFileLen(mn.cycle, mn.namelen) > SdPathMax
       THEN mn' = Raise(mn, "remote path exceeds SD_PATH_MAX(64)", "")
       ELSE mn' = [mn EXCEPT !.pc = "upload", !.attempt = 1, !.upload_ms = 0,
                           !.last_err = FALSE]
    /\ UNCHANGED mainOthers

\* `if upload_attempt >= operation_retries: raise`
LastAttempt_OneMore(upload_attempt, operation_retries) ==
    upload_attempt > operation_retries

LastAttempt(upload_attempt, operation_retries) ==
    upload_attempt >= operation_retries

\* One round of `for upload_attempt in range(1, operation_retries + 1)`:
\* run_upload returns (break), or raises; the last failure is re-raised.
MainUpload ==
    /\ mn.pc = "upload"
    /\ \E ms \in {0, 1} :
        \/ mn' = [Phase(mn, "upload") EXCEPT !.netio = TRUE, !.upload_ms = ms,
                                            !.up_ok = TRUE, !.pc = "post_upload"]
        \/ LET st == [Phase(mn, "upload_fail") EXCEPT !.netio = TRUE, !.upload_ms = ms,
                                                     !.last_err = TRUE]
           IN  IF LastAttempt(mn.attempt, mn.retries)
               THEN mn' = Raise(st, "upload failed", "")
               ELSE mn' = [st EXCEPT !.fails = @ + 1, !.pc = "health_re"]
    /\ UNCHANGED mainOthers

\* After the health recheck: the next upload attempt when it returned an
\* address, the mode toggle when it raised
AfterRecheck_AlwaysToggle(reachable) == "rec_mode_off"

AfterRecheck(reachable) == IF reachable THEN "upload" ELSE "rec_mode_off"

\* "retrying after health recheck": ip = wait_health_reachable(...)
MainHealthRe ==
    /\ mn.pc = "health_re"
    /\ \E reachable \in BOOLEAN :
        LET st == Phase(mn, IF reachable THEN "health_re" ELSE "health_re_fail")
            to == AfterRecheck(reachable)
        IN  mn' = [st EXCEPT !.netio = TRUE,
                             !.attempt = IF to = "upload" THEN @ + 1 ELSE @,
                             !.fails = IF reachable THEN @ ELSE @ + 1,
                             !.pc = to]
    /\ UNCHANGED mainOthers

\* recovery: wait_mode_ack(console, "MODE UPLOAD OFF", "MODE", 12)
MainRecModeOff ==
    /\ mn.pc = "rec_mode_off"
    /\ mn' = [Phase(mn, "rec_mode_off") EXCEPT !.pc = "rec_mode_on"]
    /\ UNCHANGED mainOthers

\* recovery: if not wait_mode_ack(console, "MODE UPLOAD ON", "MODE", 20):
\* console.close(); console = serial_preflight(port, baud, log_path)
\* `try: console.close() except Exception: pass` before the preflight
ClosedForPreflight_LeftOpen(console) == console

ClosedForPreflight(console) == "closed"

MainRecModeOn ==
    /\ mn.pc = "rec_mode_on"
    /\ \/ mn' = [Phase(mn, "rec_mode_on") EXCEPT !.pc = "rec_wifiset"]
       \/ mn' = [Phase(mn, "rec_mode_on_nack") EXCEPT
                         !.console = ClosedForPreflight(@), !.fails = @ + 1, !.pc = "pf_open",
                         !.pf_ret = "rec", !.pf_attempt = 1, !.opens = 0,
                         !.pf_last = "unknown"]
    /\ UNCHANGED mainOthers

\* recovery, after the preflight: if not wait_mode_ack(... ON ...): raise
MainRecModeOn2 ==
    /\ mn.pc = "rec_mode_on2"
    /\ \/ mn' = [Phase(mn, "rec_mode_on2") EXCEPT !.pc = "rec_wifiset"]
       \/ mn' = Raise(Phase(mn, "rec_mode_on2_nack"),
                      "MODE UPLOAD ON failed during recovery after reset", "")
    /\ UNCHANGED mainOthers

\* recovery: maybe_wifiset; wait_network_ready; wait_health_reachable
MainRecRejoin ==
    /\ mn.pc = "rec_wifiset"
    /\ \/ mn' = [Phase(Phase(Phase(mn, "wifiset"), "net_ready"), "health") EXCEPT
                         !.netio = TRUE, !.attempt = @ + 1, !.pc = "upload"]
       \/ mn' = Raise(mn, "WIFISET failed", "")
       \/ \E kind \in {"wifi did not connect", "upload server did not start"} :
            mn' = Raise(Phase(mn, "wifiset"), kind, "")
       \/ mn' = Raise([Phase(Phase(mn, "wifiset"), "net_ready") EXCEPT !.netio = TRUE],
                      "/health did not respond", "")
    /\ UNCHANGED mainOthers

\* if upload_ms == 0 and last_upload_error is not None: raise last_upload_error
MainPostUpload ==
    /\ mn.pc = "post_upload"
    /\ IF mn.upload_ms = 0 /\ mn.last_err
       THEN mn' = Raise(mn, "upload failed", "")
       ELSE mn' = [mn EXCEPT !.pc = "verify"]
    /\ UNCHANGED mainOthers

\* The row of a cycle, as appended to connect_samples, listen_samples,
\* upload_samples and throughput_samples.
Row(st) == [cycle |-> st.cycle, uploaded |-> st.up_ok, verified |-> st.ver_ok]

\* if not verify_remote_file(...): raise; the four appends; next cycle
MainVerify ==
    /\ mn.pc = "verify"
    /\ \/ LET st == [Phase(mn, "verify") EXCEPT !.ver_ok = TRUE]
          IN  mn' = [st EXCEPT !.rows = Append(@, Row(st)), !.cycle = @ + 1,
                              !.pc = "cycle"]
       \/ mn' = Raise(mn, "SD verification failed", "")
    /\ UNCHANGED mainOthers

\* A serial read or write raises OSError in one of the console functions.
SerialPhases ==
    {"mode_off", "mode_on", "wifiset", "net_ready", "health", "health_re",
     "rec_mode_off", "rec_mode_on", "rec_mode_on2", "rec_wifiset", "verify"}

MainSerialError ==
    /\ mn.pc \in SerialPhases
    /\ mn' = Raise(mn, "OSError", "serial")
    /\ UNCHANGED mainOthers

\* except Exception as exc: ... return 1
MainExcept ==
    /\ mn.pc = "except"
    /\ mn' = [mn EXCEPT !.exit = 1, !.handled = TRUE, !.pc = "fin_term"]
    /\ UNCHANGED mainOthers

\* finally: terminate_active_upload_process()
MainFinTerminate ==
    /\ mn.pc = "fin_term"
    /\ mn' = [mn EXCEPT !.pc = "fin_close"]
    /\ UNCHANGED mainOthers

\* finally: if console is not None: console.close().  os.close of a
\* descriptor that was closed before raises OSError, which leaves main.
MainFinClose ==
    /\ mn.pc = "fin_close"
    /\ mn' = IF mn.console = "none" THEN [mn EXCEPT !.pc = "fin_release"]
            ELSE IF mn.console = "open"
            THEN [mn EXCEPT !.console = "closed", !.pc = "fin_release"]
            ELSE [mn EXCEPT !.exit = 1, !.pc = "exit"]
    /\ UNCHANGED mainOthers

\* finally: lock.release()
MainFinRelease ==
    /\ mn.pc = "fin_release"
    /\ mn' = [mn EXCEPT !.lock = IF mn.lock = "none" THEN "none" ELSE "released",
                      !.pc = "exit"]
    /\ UNCHANGED mainOthers

MainNext ==
    \/ MainConfig
    \/ MainDetectMac
    \/ MainPayload
    \/ MainAcquire
    \/ PfOpen
    \/ PfProbe
    \/ PfClose
    \/ MainCycle
    \/ MainModeOff
    \/ MainModeOn
    \/ MainWifiset
    \/ MainNetReady
    \/ MainHealth
    \/ MainPathCheck
    \/ MainUpload
    \/ MainHealthRe
    \/ MainRecModeOff
    \/ MainRecModeOn
    \/ MainRecModeOn2
    \/ MainRecRejoin
    \/ MainPostUpload
    \/ MainVerify
    \/ MainSerialError
    \/ MainExcept
    \/ MainFinTerminate
    \/ MainFinClose
    \/ MainFinRelease

(***************************************************************************)
(* RunLock, and the part of main that decides which lock file a run uses.  *)
(* Several orchestrator processes are started against the same serial      *)
(* port; each is one sequential process.                                   *)
(***************************************************************************)
MaxProcs == 2

Procs == 1..MaxProcs

\* --test-name / WIFI_UPLOAD_TEST_NAME values the processes are started with
Labels == {"regression", "a b", "a-b"}

\* sanitize_label on these labels: runs of characters outside
\* [A-Za-z0-9._-] become "-", leading and trailing "-" are stripped
sanitize_label(value) == IF value = "a b" THEN "a-b" ELSE value

\* f"/tmp/meditamer_wifi_upload_{test_name}.lock", by its variable part
LockPath(label) == sanitize_label(label)

LockPaths == {LockPath(l) : l \in Labels}

\* No process: nobody holds the flock, the file names nobody
Nobody == 0

LockStart ==
    [pc |-> [p \in Procs |-> "init"],
     label |-> [p \in Procs |-> "regression"],
     fd |-> [p \in Procs |-> FALSE],
     holder |-> [f \in LockPaths |-> Nobody],
     content |-> [f \in LockPaths |-> Nobody],
     saw |-> [p \in Procs |-> Nobody],
     err |-> [p \in Procs |-> "none"],
     exit |-> [p \in Procs |-> -1]]

LockInit ==
    \E ls \in [Procs -> Labels] : lk = [LockStart EXCEPT !.label = ls]

LockOff == lk = [LockStart EXCEPT !.pc = [p \in Procs |-> "off"]]

PathOf(p) == LockPath(lk.label[p])

\* RunLock.acquire: self.fd = os.open(self.path, O_RDWR | O_CREAT)
LockOpen ==
    /\ \E p \in Procs :
        /\ lk.pc[p] = "init"
        /\ lk' = [lk EXCEPT !.pc[p] = "flock", !.fd[p] = TRUE]
    /\ UNCHANGED lockOthers

\* flock(fd, LOCK_EX | LOCK_NB) is granted exactly when no other open file
\* of the same lock file holds the lock.
FlockGranted_Shared(holder) == TRUE

FlockGranted(holder) == holder = Nobody

\* RunLock.acquire: the flock call; BlockingIOError becomes the
\* RuntimeError "another wifi upload regression run is active ..."
LockTry ==
    /\ \E p \in Procs :
        /\ lk.pc[p] = "flock"
        /\ IF FlockGranted(lk.holder[PathOf(p)])
           THEN lk' = [lk EXCEPT !.holder[PathOf(p)] = p, !.pc[p] = "write"]
           ELSE lk' = [lk EXCEPT !.saw[p] = lk.holder[PathOf(p)],
                                 !.err[p] = "another run is active",
                                 !.exit[p] = 1,
                                 !.pc[p] = "release"]
    /\ UNCHANGED lockOthers

\* RunLock.acquire: ftruncate, write "pid=... started=...", fsync
LockWrite ==
    /\ \E p \in Procs :
        /\ lk.pc[p] = "write"
        /\ lk' = [lk EXCEPT !.content[PathOf(p)] = p, !.pc[p] = "run"]
    /\ UNCHANGED lockOthers

\* The try block of main after lock.acquire(): the run drives the device
\* and ends with return 0 or return 1; then the finally block.
LockRun ==
    /\ \E p \in Procs, code \in {0, 1} :
        /\ lk.pc[p] = "run"
        /\ lk' = [lk EXCEPT !.exit[p] = code, !.pc[p] = "release"]
    /\ UNCHANGED lockOthers

\* The finally block is left before lock.release() (console.close() raised):
\* the process ends holding the descriptor, which the system then closes;
\* that drops the flock and leaves the file as it is.
LockExitUnreleased ==
    /\ \E p \in Procs :
        /\ lk.pc[p] = "run"
        /\ lk' = [lk EXCEPT !.exit[p] = 1, !.fd[p] = FALSE, !.pc[p] = "exit",
                            !.holder[PathOf(p)] = Nobody]
    /\ UNCHANGED lockOthers

\* RunLock.release: `if self.fd is None: return`, os.ftruncate(self.fd, 0)
LockTruncate ==
    /\ \E p \in Procs :
        /\ lk.pc[p] = "release"
        /\ IF lk.fd[p]
           THEN lk' = [lk EXCEPT !.content[PathOf(p)] = Nobody, !.pc[p] = "unlock"]
           ELSE lk' = [lk EXCEPT !.pc[p] = "exit"]
    /\ UNCHANGED lockOthers

\* RunLock.release: flock(fd, LOCK_UN); os.close(fd); self.fd = None
LockUnlock ==
    /\ \E p \in Procs :
        /\ lk.pc[p] = "unlock"
        /\ lk' = [lk EXCEPT !.holder[PathOf(p)] = IF @ = p THEN Nobody ELSE @,
                            !.fd[p] = FALSE, !.pc[p] = "exit"]
    /\ UNCHANGED lockOthers

LockNext ==
    \/ LockOpen
    \/ LockTry
    \/ LockWrite
    \/ LockRun
    \/ LockExitUnreleased
    \/ LockTruncate
    \/ LockUnlock

(***************************************************************************)
(* run_upload, terminate_active_upload_process and the signal handlers of  *)
(* install_signal_handlers.  The upload child runs in a session and        *)
(* process group of its own (start_new_session=True), so a signal sent to  *)
(* the orchestrator does not reach it and it outlives the orchestrator     *)
(* unless it is killed.  A Python signal handler runs between two          *)
(* bytecodes of the main thread.                                           *)
(***************************************************************************)
MaxUploads == 2
MaxSignals == 1

ChildStart ==
    [pc |-> "main", child |-> "none", slot |-> FALSE, obeys |-> TRUE, rc |-> 0,
     calls |-> 0, sigs |-> 0, intr |-> FALSE, exit |-> -1,
     term |-> FALSE, kill |-> FALSE, grace |-> "none", err |-> "none"]

ChildInit == ch = ChildStart

ChildOff == ch = [ChildStart EXCEPT !.pc = "off"]

\* terminate_active_upload_process: the child is signalled only through
\* ACTIVE_UPLOAD_PROCESS, and only if it has not ended; SIGTERM to its
\* group, SIGKILL after the grace period.
Terminate(st) ==
    [st EXCEPT !.child = IF st.slot /\ st.child = "running" THEN "killed" ELSE @,
               !.slot = FALSE]

\* main calls run_upload(...): process = None, the command is built
ChildCall ==
    /\ ch.pc = "main"
    /\ ch.calls < MaxUploads
    /\ ch' = [ch EXCEPT !.pc = "popen", !.calls = @ + 1, !.child = "none",
                        !.term = FALSE, !.kill = FALSE, !.grace = "none",
                        !.err = "none"]
    /\ UNCHANGED childOthers

\* subprocess.Popen(...) has started the child; neither `process` nor
\* ACTIVE_UPLOAD_PROCESS is assigned yet
ChildSpawn ==
    /\ ch.pc = "popen"
    /\ \E o \in BOOLEAN :
        ch' = [ch EXCEPT !.pc = "spawned", !.child = "running", !.obeys = o]
    /\ UNCHANGED childOthers

\* process = ...; ACTIVE_UPLOAD_PROCESS = process
ChildRecord ==
    /\ ch.pc = "spawned"
    /\ ch' = [ch EXCEPT !.pc = "communicate", !.slot = TRUE]
    /\ UNCHANGED childOthers

\* The uploader process ends by itself, with status 0 or not.
ChildEnds ==
    /\ ch.pc \in {"spawned", "communicate", "timeout"}
    /\ ch.child = "running"
    /\ \E rc \in {0, 1} : ch' = [ch EXCEPT !.child = "exited", !.rc = rc]
    /\ UNCHANGED childOthers

\* process.communicate(timeout=...) returns once the child has ended, or
\* raises TimeoutExpired while it is still running
ChildCommunicate ==
    /\ ch.pc = "communicate"
    /\ ch' = [ch EXCEPT !.pc = IF ch.child = "running" THEN "timeout" ELSE "run_finally"]
    /\ UNCHANGED childOthers

\* except subprocess.TimeoutExpired: os.killpg(pid, SIGTERM) and
\* process.wait(timeout=4); when the wait times out, os.killpg(pid,
\* SIGKILL); then raise RuntimeError("upload subprocess timed out").
\* `grace` is the child as the wait found it.  A child that has ended
\* meanwhile is still unreaped, so the first killpg succeeds.
TimeoutKill_NoEscalate(st) ==
    LET after == IF st.child = "running" /\ ~st.obeys THEN "running" ELSE "exited"
    IN  [st EXCEPT !.term = TRUE, !.grace = after, !.kill = FALSE,
                   !.child = IF st.child = "running" /\ st.obeys THEN "killed" ELSE @,
                   !.rc = IF st.child = "running" THEN 1 ELSE @,
                   !.err = "upload subprocess timed out"]

TimeoutKill(st) ==
    LET after == IF st.child = "running" /\ ~st.obeys THEN "running" ELSE "exited"
    IN  [st EXCEPT !.term = TRUE, !.grace = after, !.kill = (after = "running"),
                   !.child = IF st.child = "running" THEN "killed" ELSE @,
                   !.rc = IF st.child = "running" THEN 1 ELSE @,
                   !.err = "upload subprocess timed out"]

ChildTimeoutKill ==
    /\ ch.pc = "timeout"
    /\ ch' = [TimeoutKill(ch) EXCEPT !.pc = "run_finally"]
    /\ UNCHANGED childOthers

\* finally: ACTIVE_UPLOAD_PROCESS = None; run_upload returns or raises
\* RuntimeError, back in the try block of main
ChildRunFinally ==
    /\ ch.pc = "run_finally"
    /\ ch' = [ch EXCEPT !.slot = FALSE, !.pc = "main",
                        !.err = IF @ = "none" /\ ch.rc # 0 THEN "upload failed" ELSE @]
    /\ UNCHANGED childOthers

\* main returns 0 or 1; the finally block follows
ChildMainDone ==
    /\ ch.pc = "main"
    /\ \E code \in {0, 1} : ch' = [ch EXCEPT !.exit = code, !.pc = "fin"]
    /\ UNCHANGED childOthers

\* SIGINT or SIGTERM: _handler runs terminate_active_upload_process() and
\* raises KeyboardInterrupt.  The exception leaves run_upload through its
\* finally clause, passes `except Exception` of main and reaches the
\* finally block of main; raised inside that block, it leaves it.
ChildSignal ==
    /\ ch.pc \notin {"off", "exit"}
    /\ ch.sigs < MaxSignals
    /\ ch' = [Terminate(ch) EXCEPT !.sigs = @ + 1, !.intr = TRUE, !.exit = 130,
                                   !.pc = IF ch.pc \in {"fin", "fin_rest"}
                                          THEN "exit" ELSE "fin"]
    /\ UNCHANGED childOthers

\* finally of main: terminate_active_upload_process()
ChildFinTerminate ==
    /\ ch.pc = "fin"
    /\ ch' = [Terminate(ch) EXCEPT !.pc = "fin_rest"]
    /\ UNCHANGED childOthers

\* finally of main: console.close(), lock.release(); the process ends
ChildFinRest ==
    /\ ch.pc = "fin_rest"
    /\ ch' = [ch EXCEPT !.pc = "exit"]
    /\ UNCHANGED childOthers

ChildNext ==
    \/ ChildCall
    \/ ChildSpawn
    \/ ChildRecord
    \/ ChildEnds
    \/ ChildCommunicate
    \/ ChildTimeoutKill
    \/ ChildRunFinally
    \/ ChildMainDone
    \/ ChildSignal
    \/ ChildFinTerminate
    \/ ChildFinRest

(***************************************************************************)
(* upload_assets_http.py: main and upload_file.  Each call of request or   *)
(* request_sd_busy_aware is taken whole, by the reply it ends with: a 2xx  *)
(* response (the call returns), or a non-2xx response or connection        *)
(* failure that it raises after its retries.  Sizes are in bytes.          *)
(***************************************************************************)
MaxFileSize == 3
ChunkSize == 2
MaxDirs == 1
MaxFiles == 2
MaxResend == 1

FileReplies == {"200", "500", "conn"}

\* request(): `if resp.status // 100 != 2: raise`, else `return data`
RequestOk_AnyResponse(reply) == reply # "conn"

RequestOk(reply) == reply = "200"

\* One request as logged: target, offset and length of a chunk body (0 for
\* the others), the size announced by upload_begin (0 for the others), and
\* the reply.
Req(t, off, len, size, reply) ==
    [t |-> t, off |-> off, len |-> len, size |-> size, reply |-> reply]

NoReq == Req("none", 0, 0, 0, "none")

FileStart ==
    [pc |-> "args", has_src |-> TRUE, src_ok |-> TRUE, isfile |-> TRUE, skipmk |-> FALSE,
     nrm |-> 0, ndirs |-> 0, nfiles |-> 1, size |-> 0,
     mlog |-> <<>>, file |-> 0, log |-> <<>>, off |-> 0, ret |-> "none",
     err |-> NoReq, raised |-> NoReq, exit |-> -1, complete |-> FALSE,
     dev |-> <<>>]

FileInit ==
    \E hs \in BOOLEAN, so \in BOOLEAN, isf \in BOOLEAN, sk \in BOOLEAN, rm \in 0..1,
       nd \in 0..MaxDirs, nf \in 1..MaxFiles, sz \in 0..MaxFileSize :
        /\ isf => nf = 1
        /\ ~isf => ~sk
        /\ ~hs => (so /\ isf /\ ~sk /\ nd = 0 /\ sz = 0)
        /\ fl = [FileStart EXCEPT !.has_src = hs, !.src_ok = so, !.isfile = isf, !.skipmk = sk,
                                  !.nrm = rm, !.ndirs = nd, !.nfiles = nf,
                                  !.size = sz]

FileOff == fl = [FileStart EXCEPT !.pc = "off"]

\* main: `if src is None and not args.rm: return 2`,
\* `if src is not None and not src.exists(): return 2`
FileArgs ==
    /\ fl.pc = "args"
    /\ fl' = IF (~fl.has_src /\ fl.nrm = 0) \/ (fl.has_src /\ ~fl.src_ok)
             THEN [fl EXCEPT !.exit = 2, !.pc = "exit"]
             ELSE [fl EXCEPT !.pc = "health"]
    /\ UNCHANGED fileOthers

\* main: health_check; on an exception `return 3`
FileHealth ==
    /\ fl.pc = "health"
    /\ \E reply \in FileReplies :
        LET st == [fl EXCEPT !.mlog = Append(@, Req("GET /health", 0, 0, 0, reply))]
        IN  fl' = IF RequestOk(reply) THEN [st EXCEPT !.pc = "rm"]
                  ELSE [st EXCEPT !.exit = 3, !.pc = "exit"]
    /\ UNCHANGED fileOthers

\* The requests of main so far to a target
CountOf(log, t) == Cardinality({i \in 1..Len(log) : log[i].t = t})

\* main: `for raw_rm in args.rm: rm_path(...)`; an exception leaves main
\* (traceback, exit status 1); without --src, "Delete complete." and
\* return 0
FileRm ==
    /\ fl.pc = "rm"
    /\ IF CountOf(fl.mlog, "DELETE /rm") < fl.nrm
       THEN \E reply \in FileReplies :
              LET st == [fl EXCEPT !.mlog = Append(@, Req("DELETE /rm", 0, 0, 0, reply))]
              IN  fl' = IF RequestOk(reply) THEN st
                        ELSE [st EXCEPT !.exit = 1, !.pc = "exit"]
       ELSE fl' = IF ~fl.has_src
                  THEN [fl EXCEPT !.exit = 0, !.pc = "exit"]
                  ELSE [fl EXCEPT !.pc = IF fl.skipmk THEN "next_file" ELSE "mkdir"]
    /\ UNCHANGED fileOthers

\* main: mkdir_p(...), one POST /mkdir per path component; skipped under
\* UPLOAD_SKIP_MKDIR for a single file
FileMkdir ==
    /\ fl.pc = "mkdir"
    /\ IF CountOf(fl.mlog, "POST /mkdir") < fl.ndirs
       THEN \E reply \in FileReplies :
              LET st == [fl EXCEPT !.mlog = Append(@, Req("POST /mkdir", 0, 0, 0, reply))]
              IN  fl' = IF RequestOk(reply) THEN st
                        ELSE [st EXCEPT !.exit = 1, !.pc = "exit"]
       ELSE fl' = [fl EXCEPT !.pc = "next_file"]
    /\ UNCHANGED fileOthers

\* main: the next upload_file(...) call, or print("Upload complete.") and
\* return 0
FileNextFile ==
    /\ fl.pc = "next_file"
    /\ IF fl.file < fl.nfiles
       THEN fl' = [fl EXCEPT !.file = @ + 1, !.log = <<>>, !.off = 0,
                             !.ret = "none", !.dev = <<>>, !.pc = "put"]
       ELSE fl' = [fl EXCEPT !.complete = TRUE, !.exit = 0, !.pc = "exit"]
    /\ UNCHANGED fileOthers

\* upload_file: the single-shot PUT /upload; `return`, or the except clause
FilePut ==
    /\ fl.pc = "put"
    /\ \E reply \in FileReplies :
        LET st == [fl EXCEPT !.log = Append(@, Req("PUT /upload", 0, fl.size, 0, reply))]
        IN  fl' = IF RequestOk(reply)
                  THEN [st EXCEPT !.ret = "return", !.pc = "after_file"]
                  ELSE [st EXCEPT !.pc = "fallback_abort"]
    /\ UNCHANGED fileOthers

\* upload_file: POST /upload_abort before the fallback; `except: pass`
FileFallbackAbort ==
    /\ fl.pc = "fallback_abort"
    /\ \E reply \in FileReplies :
        fl' = [fl EXCEPT !.log = Append(@, Req("POST /upload_abort", 0, 0, 0, reply)),
                         !.pc = "begin"]
    /\ UNCHANGED fileOthers

\* upload_file: POST /upload_begin?path=...&size=...; outside the try block
FileBegin ==
    /\ fl.pc = "begin"
    /\ \E reply \in FileReplies :
        LET rq == Req("POST /upload_begin", 0, 0, fl.size, reply)
            st == [fl EXCEPT !.log = Append(@, rq)]
        IN  fl' = IF RequestOk(reply)
                  THEN [st EXCEPT !.off = 0, !.dev = <<>>, !.pc = "chunks"]
                  ELSE [st EXCEPT !.ret = "raise", !.err = rq, !.raised = rq,
                                  !.pc = "after_file"]
    /\ UNCHANGED fileOthers

\* upload_file: chunk = f.read(UPLOAD_CHUNK_SIZE); `if not chunk: break`
ChunksDone_OneEarly(off, size) == off + ChunkSize >= size

ChunksDone(off, size) == off >= size

Min2(a, b) == IF a <= b THEN a ELSE b

\* The device side of PUT /upload_chunk: the request names no offset, and
\* each body the device receives is appended to the file being written.
\* dev holds the offsets in the source file of the bodies it has taken.
RECURSIVE DeviceAccepts(_, _, _)
DeviceAccepts(dev, off, times) ==
    IF times = 0 THEN dev ELSE DeviceAccepts(Append(dev, off), off, times - 1)

\* upload_file: one round of the chunk loop, or POST /upload_commit after
\* it.  Within the call request() sends the chunk again after a timeout or
\* a reset, also when the device had received the body before (`resent`
\* such attempts); the attempt answered 2xx delivers it once more.
FileChunkOrCommit ==
    /\ fl.pc = "chunks"
    /\ \E reply \in FileReplies, resent \in 0..MaxResend :
        LET len == Min2(ChunkSize, fl.size - fl.off)
            rq == IF ChunksDone(fl.off, fl.size)
                  THEN Req("POST /upload_commit", 0, 0, 0, reply)
                  ELSE Req("PUT /upload_chunk", fl.off, len, 0, reply)
            times == IF ChunksDone(fl.off, fl.size) THEN 0
                     ELSE resent + (IF RequestOk(reply) THEN 1 ELSE 0)
            st == [fl EXCEPT !.log = Append(@, rq),
                             !.dev = DeviceAccepts(@, fl.off, times)]
        IN  fl' = IF ~RequestOk(reply)
                  THEN [st EXCEPT !.err = rq, !.pc = "fail_abort"]
                  ELSE IF ChunksDone(fl.off, fl.size)
                  THEN [st EXCEPT !.ret = "return", !.pc = "after_file"]
                  ELSE [st EXCEPT !.off = @ + len]
    /\ UNCHANGED fileOthers

\* upload_file: `except Exception: try: request(... "/upload_abort" ...)
\* except Exception: pass; raise` - the exception that leaves upload_file
Reraise_AbortError(err, abort) == IF RequestOk(abort.reply) THEN err ELSE abort

Reraise(err, abort) == err

FileFailAbort ==
    /\ fl.pc = "fail_abort"
    /\ \E reply \in FileReplies :
        LET rq == Req("POST /upload_abort", 0, 0, 0, reply)
        IN  fl' = [fl EXCEPT !.log = Append(@, rq), !.ret = "raise",
                             !.raised = Reraise(fl.err, rq), !.pc = "after_file"]
    /\ UNCHANGED fileOthers

\* main after upload_file: its exception leaves main (exit status 1)
FileAfter ==
    /\ fl.pc = "after_file"
    /\ fl' = IF fl.ret = "return" THEN [fl EXCEPT !.pc = "next_file"]
             ELSE [fl EXCEPT !.exit = 1, !.pc = "exit"]
    /\ UNCHANGED fileOthers

FileNext ==
    \/ FileArgs
    \/ FileHealth
    \/ FileRm
    \/ FileMkdir
    \/ FileNextFile
    \/ FilePut
    \/ FileFallbackAbort
    \/ FileBegin
    \/ FileChunkOrCommit
    \/ FileFailAbort
    \/ FileAfter

(***************************************************************************)
(* The session log.  main computes log_path once; every SerialConsole of   *)
(* the run (each preflight attempt, the re-opening during recovery) opens  *)
(* that path, and _read_lines writes each line it returns to it.           *)
(***************************************************************************)
MaxOpens == 2
MaxLines == 3

LogLines == {"PONG", "rst:0x1 boot"}

LogStart == [pc |-> "closed", opens |-> 0, file |-> <<>>, rcvd |-> <<>>]

LogInit == lg = LogStart

LogOff == lg = [LogStart EXCEPT !.pc = "off"]

\* What open(mode) leaves of the file's content: mode "w" truncates it
OpenLog(content) == <<>>

\* SerialConsole.__init__: self.log_file = log_path.open("w", ...)
LogOpen ==
    /\ lg.pc = "closed"
    /\ lg.opens < MaxOpens
    /\ lg' = [lg EXCEPT !.pc = "open", !.opens = @ + 1, !.file = OpenLog(@)]
    /\ UNCHANGED logOthers

\* _read_lines: self.log_file.write(line + "\n"); flush; lines.append(line)
LogReadLine ==
    /\ lg.pc = "open"
    /\ Len(lg.rcvd) < MaxLines
    /\ \E line \in LogLines :
        lg' = [lg EXCEPT !.file = Append(@, line), !.rcvd = Append(@, line)]
    /\ UNCHANGED logOthers

\* SerialConsole.close: self.log_file.close()
LogClose ==
    /\ lg.pc = "open"
    /\ lg' = [lg EXCEPT !.pc = "closed"]
    /\ UNCHANGED logOthers

LogNext ==
    \/ LogOpen
    \/ LogReadLine
    \/ LogClose

(***************************************************************************)
(* SerialConsole.wait_regex(pattern, timeout_s), over the lists of lines   *)
(* that its _read_lines calls return.                                      *)
(***************************************************************************)
MaxPolls == 3
MaxBatch == 2

WaitLines == {"PONG", "METRICS x", "rst:0x1 boot"}

\* What one _read_lines call can return
Batches == UNION { [1..n -> WaitLines] : n \in 0..MaxBatch }

\* rx.search(line) for the pattern ^PONG$
WaitMatches(line) == line = "PONG"

\* for line in self._read_lines(0.1): seen.append(line);
\* if rx.search(line): return line, seen
RECURSIVE ScanBatch(_, _)
ScanBatch(batch, seen) ==
    IF batch = <<>> THEN [seen |-> seen, found |-> "none"]
    ELSE IF WaitMatches(Head(batch))
         THEN [seen |-> Append(seen, Head(batch)), found |-> Head(batch)]
         ELSE ScanBatch(Tail(batch), Append(seen, Head(batch)))

WaitStart ==
    [pc |-> "wait", polls |-> 0, seen |-> <<>>, taken |-> <<>>, found |-> "none"]

WaitInit == wt = WaitStart

WaitOff == wt = [WaitStart EXCEPT !.pc = "off"]

\* One round of `while time.monotonic() < end`: a _read_lines call takes a
\* batch of lines out of the receive buffer, and the for loop goes over it
WaitPoll ==
    /\ wt.pc = "wait"
    /\ wt.polls < MaxPolls
    /\ \E batch \in Batches :
        LET sc == ScanBatch(batch, wt.seen)
        IN  wt' = [wt EXCEPT !.polls = @ + 1, !.taken = @ \o batch,
                             !.seen = sc.seen, !.found = sc.found,
                             !.pc = IF sc.found = "none" THEN "wait" ELSE "done"]
    /\ UNCHANGED waitOthers

\* The while condition fails: return None, seen
WaitDeadline ==
    /\ wt.pc = "wait"
    /\ wt' = [wt EXCEPT !.pc = "done"]
    /\ UNCHANGED waitOthers

WaitNext ==
    \/ WaitPoll
    \/ WaitDeadline

(***************************************************************************)
(* dedupe_ips and wait_health_reachable(console, metrics_ip, mac,          *)
(* timeout_s, discovery_timeout_s).  One action is one round of the while  *)
(* loop.                                                                   *)
(***************************************************************************)
MaxTicks == 2
MaxArp == 2

\* Lists without repetition, as discover_ips_by_mac builds them from the
\* ARP table
ArpLists ==
    { s \in UNION { [1..n -> Ips] : n \in 0..MaxArp } :
        \A i, j \in 1..Len(s) : i # j => s[i] # s[j] }

InList(x, s) == \E i \in 1..Len(s) : s[i] = x

\* dedupe_ips: `if not ip or ip == "0.0.0.0": continue`,
\* `if ip not in result: result.append(ip)`
RECURSIVE DedupeFrom_KeepZero(_, _)
DedupeFrom_KeepZero(candidates, result) ==
    IF candidates = <<>> THEN result
    ELSE LET ip == Head(candidates)
         IN  IF ip = "" \/ InList(ip, result)
             THEN DedupeFrom_KeepZero(Tail(candidates), result)
             ELSE DedupeFrom_KeepZero(Tail(candidates), Append(result, ip))

RECURSIVE DedupeFrom(_, _)
DedupeFrom(candidates, result) ==
    IF candidates = <<>> THEN result
    ELSE LET ip == Head(candidates)
         IN  IF ip = "" \/ ip = ZeroIp \/ InList(ip, result)
             THEN DedupeFrom(Tail(candidates), result)
             ELSE DedupeFrom(Tail(candidates), Append(result, ip))

dedupe_ips(candidates) == DedupeFrom(candidates, <<>>)

\* `for ip in ...: if ip not in discovered_ips: discovered_ips.append(ip)`
RECURSIVE Discover(_, _)
Discover(found, discovered_ips) ==
    IF found = <<>> THEN discovered_ips
    ELSE Discover(Tail(found),
                  IF InList(Head(found), discovered_ips) THEN discovered_ips
                  ELSE Append(discovered_ips, Head(found)))

\* `for ip in candidates: if http_health_once(ip): return ip` - the probes
\* made, given the set of addresses that answer 200 now
RECURSIVE ProbeAll(_, _, _)
ProbeAll(candidates, up, done) ==
    IF candidates = <<>> THEN [probes |-> done, ret |-> ""]
    ELSE IF Head(candidates) \in up
         THEN [probes |-> Append(done, [ip |-> Head(candidates), ok |-> TRUE]),
               ret |-> Head(candidates)]
         ELSE ProbeAll(Tail(candidates), up,
                       Append(done, [ip |-> Head(candidates), ok |-> FALSE]))

HealthStart ==
    [pc |-> "loop", metrics_ip |-> "", mac |-> FALSE, discovered_ips |-> <<>>,
     ticks |-> 0, candidates |-> <<>>, probes |-> <<>>, up |-> {}, ret |-> "",
     result |-> "none"]

HealthInit ==
    \E ip \in Ips \cup {""}, mac \in BOOLEAN :
        hl = [HealthStart EXCEPT !.metrics_ip = ip, !.mac = mac]

HealthOff == hl = [HealthStart EXCEPT !.pc = "off"]

\* One round of `while time.monotonic() < deadline`: lines 571-588
HealthTick ==
    /\ hl.pc = "loop"
    /\ hl.ticks < MaxTicks
    /\ \E metrics \in Samples \cup {NoSample}, window \in BOOLEAN,
          found \in ArpLists, up \in SUBSET (Ips \ {ZeroIp}) :
        LET mip  == IF metrics # NoSample /\ metrics.listening # 0 /\ metrics.ip # ZeroIp
                    THEN metrics.ip ELSE hl.metrics_ip
            disc == IF hl.mac /\ window THEN Discover(found, hl.discovered_ips)
                    ELSE hl.discovered_ips
            cand == dedupe_ips(<<mip>> \o disc)
            pr   == ProbeAll(cand, up, <<>>)
        IN  hl' = [hl EXCEPT !.metrics_ip = mip, !.discovered_ips = disc,
                             !.ticks = @ + 1, !.candidates = cand,
                             !.probes = pr.probes, !.up = up, !.ret = pr.ret,
                             !.result = IF pr.ret # "" THEN "return" ELSE "none",
                             !.pc = IF pr.ret # "" THEN "done" ELSE "loop"]
    /\ UNCHANGED healthOthers

\* The while condition fails: the diagnostics are collected and
\* RuntimeError("/health did not respond ...") is raised
HealthTimeout ==
    /\ hl.pc = "loop"
    /\ hl.ticks >= 1
    /\ hl' = [hl EXCEPT !.candidates = dedupe_ips(<<hl.metrics_ip>> \o hl.discovered_ips),
                        !.result = "raise", !.pc = "done"]
    /\ UNCHANGED healthOthers

HealthNext ==
    \/ HealthTick
    \/ HealthTimeout

(***************************************************************************)
(* upload_assets_http.py: request(), one call.  The body is a file object  *)
(* (seekable, read from its current position) or bytes (sent whole).       *)
(***************************************************************************)
MaxRetries == 3
MaxBody == 2
MaxCalls == 2

\* What one attempt ends with: a 2xx response, a non-2xx response, or one
\* of the exceptions of the except clause.
RqOutcomes == {"2xx", "non2xx", "conn"}

\* attempts = max(1, retries)
RqAttempts(retries) == Max(1, retries)

\* `if attempt > 0 and hasattr(body, "seek"): body.seek(0)`: the position
\* the body is read from in this attempt
BodyStart_NoSeek(attempt, seekable, pos) == pos

BodyStart(attempt, seekable, pos) ==
    IF attempt > 0 /\ seekable THEN 0 ELSE pos

RequestStart ==
    [pc |-> "try", retries |-> 1, seekable |-> FALSE, size |-> 0, pos |-> 0,
     attempt |-> 0, log |-> <<>>, slept |-> <<>>, result |-> "none",
     calls |-> 1, starts |-> {}]

RequestInit ==
    \E r \in 0..MaxRetries, sk \in BOOLEAN, sz \in 0..MaxBody :
        rqst = [RequestStart EXCEPT !.retries = r, !.seekable = sk, !.size = sz]

RequestOff == rqst = [RequestStart EXCEPT !.pc = "off"]

\* One round of `for attempt in range(attempts)` up to the return, the
\* raise or the sleep.  A connection failure may come with the body sent
\* in part.
RequestAttempt ==
    /\ rqst.pc = "try"
    /\ \E out \in RqOutcomes, sent \in 0..MaxBody :
        LET start == BodyStart(rqst.attempt, rqst.seekable, rqst.pos)
            st == [rqst EXCEPT !.log = Append(@, [start |-> start, out |-> out]),
                             !.starts = @ \cup {start},
                             !.pos = IF ~rqst.seekable THEN 0
                                     ELSE IF out = "conn" THEN start + sent
                                     ELSE rqst.size]
        IN  /\ start + sent <= rqst.size
            /\ out # "conn" => start + sent = rqst.size
            /\ rqst' = IF out = "2xx"
                     THEN [st EXCEPT !.result = "return", !.pc = "done"]
                     ELSE IF out = "non2xx"
                     THEN [st EXCEPT !.result = "raise_status", !.pc = "done"]
                     ELSE IF rqst.attempt + 1 >= RqAttempts(rqst.retries)
                     THEN [st EXCEPT !.result = "raise_conn", !.pc = "done"]
                     ELSE [st EXCEPT !.pc = "sleep"]
    /\ UNCHANGED requestOthers

\* time.sleep(retry_delay * (attempt + 1)); the next round
RequestSleep ==
    /\ rqst.pc = "sleep"
    /\ rqst' = [rqst EXCEPT !.slept = Append(@, RetryDelay * (rqst.attempt + 1)),
                        !.attempt = @ + 1, !.pc = "try"]
    /\ UNCHANGED requestOthers

\* request_sd_busy_aware: the call of request() raised a 408, a "409 ...
\* sd busy" or a connection-class error and can_retry held; after the
\* recovery wait or the abort, and the sleep, request() is called again
\* with the same arguments, the same body object among them.
RequestReissue ==
    /\ rqst.pc = "done"
    /\ rqst.result \in {"raise_status", "raise_conn"}
    /\ rqst.calls < MaxCalls
    /\ rqst' = [rqst EXCEPT !.calls = @ + 1, !.attempt = 0, !.log = <<>>,
                            !.slept = <<>>, !.result = "none", !.pc = "try"]
    /\ UNCHANGED requestOthers

RequestNext ==
    \/ RequestAttempt
    \/ RequestSleep
    \/ RequestReissue

(***************************************************************************)
(* verify_remote_file with the device it talks to.  The device answers     *)
(* SDFATSTAT with "SDFATSTAT OK" and "SDREQ id=N op=fat_stat", with        *)
(* "SDFATSTAT BUSY", with "SDFATSTAT ERR", or not at all, and SDWAIT with  *)
(* "SDWAIT DONE ... status=.. code=..", "SDWAIT TIMEOUT" or not at all.    *)
(* Its lines wait in vf.todo until a _read_lines call takes them, so an    *)
(* answer may arrive after the wait for it has timed out.                  *)
(***************************************************************************)
MaxIds == 2
MaxQueue == 3

\* for _ in range(8)
StatAttempts == 8

VLine(t, id, ok) == [t |-> t, id |-> id, ok |-> ok]

NoVLine == VLine("none", 0, FALSE)

\* The device's answers to SDFATSTAT, `id` being the next request id
StatReplies(id) ==
    {<<VLine("STAT_BUSY", 0, FALSE)>>, <<VLine("STAT_ERR", 0, FALSE)>>, <<>>}
      \cup (IF id <= MaxIds
            THEN {<<VLine("STAT_OK", 0, FALSE), VLine("SDREQ", id, FALSE)>>}
            ELSE {})

\* The device's answers to SDWAIT <id>; ok is "status=ok code=ok"
WaitReplies(id) ==
    {<<VLine("DONE", id, TRUE)>>, <<VLine("DONE", id, FALSE)>>,
     <<VLine("WTIMEOUT", id, FALSE)>>, <<>>}

\* The device's lines are kept while the queue has room.
Queue(todo, reply) == IF Len(todo) + Len(reply) <= MaxQueue THEN todo \o reply ELSE todo

\* The three patterns: ^SDFATSTAT (OK|BUSY|ERR), ^SDREQ id=([0-9]+) op=fat_stat,
\* ^SDWAIT (DONE|TIMEOUT|ERR)
VMatches(pc, line) ==
    CASE pc = "w_stat" -> line.t \in {"STAT_OK", "STAT_BUSY", "STAT_ERR"}
      [] pc = "w_req"  -> line.t = "SDREQ"
      [] pc = "w_done" -> line.t \in {"DONE", "WTIMEOUT"}
      [] OTHER -> FALSE

\* wait_regex over one batch: the position of the first matching line, 0
\* when none matches
FirstVMatch(pc, batch) ==
    IF \E i \in 1..Len(batch) : VMatches(pc, batch[i])
    THEN CHOOSE i \in 1..Len(batch) :
            /\ VMatches(pc, batch[i])
            /\ \A j \in 1..(i - 1) : ~VMatches(pc, batch[j])
    ELSE 0

\* `done_line and "SDWAIT DONE" in done_line and "status=ok" in done_line
\* and "code=ok" in done_line`
DoneOk_AnyDone(line) == line.t = "DONE"

DoneOk(line) == line.t = "DONE" /\ line.ok

VerifyStart ==
    [pc |-> "stat", n |-> 0, todo |-> <<>>, next |-> 1, cur |-> 0, req_id |-> 0,
     reqs |-> {}, waits |-> <<>>, stat |-> NoVLine, done |-> NoVLine,
     lost |-> FALSE, ret |-> "none"]

VerifyInit == vf = VerifyStart

VerifyOff == vf = [VerifyStart EXCEPT !.pc = "off"]

\* Top of `for _ in range(8)`: command_wait sends SDFATSTAT, or the loop is
\* over and the function returns False.  vf.cur is the id the device gave
\* this SDFATSTAT, 0 when it did not answer OK.
VerifyStat ==
    /\ vf.pc = "stat"
    /\ IF vf.n >= StatAttempts
       THEN vf' = [vf EXCEPT !.ret = "False", !.pc = "done"]
       ELSE \E reply \in StatReplies(vf.next) :
              LET ok == Len(reply) = 2 /\ Queue(vf.todo, reply) # vf.todo
              IN  vf' = [vf EXCEPT !.n = @ + 1, !.todo = Queue(@, reply),
                                   !.cur = IF ok THEN vf.next ELSE 0,
                                   !.next = IF ok THEN @ + 1 ELSE @,
                                   !.pc = "w_stat"]
    /\ UNCHANGED verifyOthers

\* One round of wait_regex: _read_lines takes the first k unread lines; the
\* for loop returns at the first line that matches, and the lines after it
\* in the batch are dropped.  Then what verify_remote_file does with the
\* match.
VerifyRead ==
    /\ vf.pc \in {"w_stat", "w_req", "w_done"}
    /\ \E k \in 1..MaxBatch :
        /\ k <= Len(vf.todo)
        /\ LET batch == SubSeq(vf.todo, 1, k)
               rest  == SubSeq(vf.todo, k + 1, Len(vf.todo))
               i     == FirstVMatch(vf.pc, batch)
               line  == batch[i]
               st    == [vf EXCEPT !.todo = rest,
                                   !.lost = @ \/ (i # 0 /\ \E j \in (i + 1)..k :
                                                     batch[j].t = "SDREQ")]
           IN  IF i = 0 THEN vf' = st
               ELSE IF vf.pc = "w_stat"
               THEN vf' = [st EXCEPT !.stat = line,
                                     !.ret = IF line.t = "STAT_ERR" THEN "False" ELSE @,
                                     !.pc = IF line.t = "STAT_ERR" THEN "done"
                                            ELSE IF line.t = "STAT_BUSY" THEN "stat"
                                            ELSE "w_req"]
               ELSE IF vf.pc = "w_req"
               THEN \E reply \in WaitReplies(line.id) :
                      vf' = [st EXCEPT !.req_id = line.id, !.reqs = @ \cup {line.id},
                                       !.waits = Append(@, [id |-> line.id, cur |-> vf.cur]),
                                       !.todo = Queue(rest, reply),
                                       !.pc = "w_done"]
               ELSE vf' = [st EXCEPT !.done = line,
                                     !.ret = IF DoneOk(line) THEN "True" ELSE @,
                                     !.pc = IF DoneOk(line) THEN "done" ELSE "stat"]
    /\ UNCHANGED verifyOthers

\* The while condition of wait_regex fails: None is returned and the for
\* loop of verify_remote_file continues.
VerifyTimeout ==
    /\ vf.pc \in {"w_stat", "w_req", "w_done"}
    /\ vf' = [vf EXCEPT !.pc = "stat"]
    /\ UNCHANGED verifyOthers

VerifyNext ==
    \/ VerifyStat
    \/ VerifyRead
    \/ VerifyTimeout

(***************************************************************************)
(* The head of a cycle after the first: wait_mode_ack for MODE UPLOAD OFF  *)
(* (its result is not used), then wait_mode_ack for MODE UPLOAD ON, with   *)
(* the device that answers them.  A reply waits in md.todo until a         *)
(* _read_lines call takes it, and carries the command it answers.          *)
(***************************************************************************)
MaxModeAttempts == 2

MLine(kind, cmd) == [kind |-> kind, cmd |-> cmd]

NoMLine == MLine("none", "none")

\* The device's answers to a mode command: "MODE OK", "MODE BUSY",
\* "MODE ERR reason=..." (not a timeout), or none
ModeAnswers(cmd) ==
    {<<MLine("OK", cmd)>>, <<MLine("BUSY", cmd)>>, <<MLine("ERR", cmd)>>, <<>>}

ModeStart ==
    [pc |-> "send", call |-> "OFF", attempts |-> 1, i |-> 0, todo |-> <<>>,
     acked |-> NoMLine, offret |-> "none", onret |-> "none"]

ModeInit ==
    \E n \in 1..MaxModeAttempts : md = [ModeStart EXCEPT !.attempts = n]

ModeOff == md = [ModeStart EXCEPT !.pc = "off"]

\* wait_mode_ack has returned: the OFF call is followed by time.sleep(1)
\* and the ON call, the ON call by the rest of the cycle or the raise
ModeReturn(st, value, line) ==
    IF st.call = "OFF"
    THEN [st EXCEPT !.offret = value, !.call = "ON", !.i = 0, !.pc = "send"]
    ELSE [st EXCEPT !.onret = value, !.acked = line, !.pc = "done"]

\* `for _ in range(attempts)`: command_wait sends the command, or the loop
\* is over and wait_mode_ack returns False
ModeSend ==
    /\ md.pc = "send"
    /\ IF md.i >= md.attempts
       THEN md' = ModeReturn(md, "False", NoMLine)
       ELSE \E reply \in ModeAnswers(md.call) :
              md' = [md EXCEPT !.todo = Queue(@, reply), !.pc = "wait"]
    /\ UNCHANGED modeOthers

\* wait_regex(^MODE (OK|BUSY|ERR)): _read_lines takes the first k unread
\* lines and the first of them matches; then the if-chain of wait_mode_ack
ModeRead ==
    /\ md.pc = "wait"
    /\ \E k \in 1..MaxBatch :
        /\ k <= Len(md.todo)
        /\ LET line == md.todo[1]
               st == [md EXCEPT !.todo = SubSeq(@, k + 1, Len(@))]
           IN  md' = IF line.kind = "OK" THEN ModeReturn(st, "True", line)
                     ELSE IF line.kind = "ERR" THEN ModeReturn(st, "False", line)
                     ELSE [st EXCEPT !.i = @ + 1, !.pc = "send"]
    /\ UNCHANGED modeOthers

\* The 4 s of wait_regex are over: `if line is None: continue`
ModeTimeout ==
    /\ md.pc = "wait"
    /\ md' = [md EXCEPT !.i = @ + 1, !.pc = "send"]
    /\ UNCHANGED modeOthers

ModeNext ==
    \/ ModeSend
    \/ ModeRead
    \/ ModeTimeout

(***************************************************************************)
(* Specifications                                                          *)
(***************************************************************************)
InitAck == AckInit /\ ReadOff /\ NetOff /\ UpOff /\ MainOff /\ LockOff /\ ChildOff /\ FileOff /\ LogOff /\ WaitOff /\ HealthOff /\ RequestOff /\ PollOff /\ VerifyOff /\ ModeOff

SpecAck == InitAck /\ [][AckNext]_vars

InitRead == ReadInit /\ AckOff /\ NetOff /\ UpOff /\ MainOff /\ LockOff /\ ChildOff /\ FileOff /\ LogOff /\ WaitOff /\ HealthOff /\ RequestOff /\ PollOff /\ VerifyOff /\ ModeOff

SpecRead == InitRead /\ [][ReadNext]_vars

InitNet == NetInit /\ AckOff /\ ReadOff /\ UpOff /\ MainOff /\ LockOff /\ ChildOff /\ FileOff /\ LogOff /\ WaitOff /\ HealthOff /\ RequestOff /\ PollOff /\ VerifyOff /\ ModeOff

SpecNet == InitNet /\ [][NetNext]_vars

Init == MainInit /\ AckOff /\ ReadOff /\ NetOff /\ UpOff /\ LockOff /\ ChildOff /\ FileOff /\ LogOff /\ WaitOff /\ HealthOff /\ RequestOff /\ PollOff /\ VerifyOff /\ ModeOff

Next == MainNext

\* The orchestrator: main() from lock.acquire() to the process exit.
Spec == Init /\ [][Next]_vars

InitUp == UpInit /\ AckOff /\ ReadOff /\ NetOff /\ MainOff /\ LockOff /\ ChildOff /\ FileOff /\ LogOff /\ WaitOff /\ HealthOff /\ RequestOff /\ PollOff /\ VerifyOff /\ ModeOff

SpecUp == InitUp /\ [][UpNext]_vars

\* Every step of the uploader is a step of one sequential process, which
\* goes on as long as it can.
SpecUpFair == InitUp /\ [][UpNext]_vars /\ WF_vars(UpNext)

InitLock == LockInit /\ AckOff /\ ReadOff /\ NetOff /\ UpOff /\ MainOff /\ ChildOff /\ FileOff /\ LogOff /\ WaitOff /\ HealthOff /\ RequestOff /\ PollOff /\ VerifyOff /\ ModeOff

\* Orchestrator processes started concurrently against one serial port.
SpecLock == InitLock /\ [][LockNext]_vars

InitChild == ChildInit /\ AckOff /\ ReadOff /\ NetOff /\ UpOff /\ MainOff /\ LockOff /\ FileOff /\ LogOff /\ WaitOff /\ HealthOff /\ RequestOff /\ PollOff /\ VerifyOff /\ ModeOff

\* The orchestrator around its upload child, with signals.
SpecChild == InitChild /\ [][ChildNext]_vars

InitFile == FileInit /\ AckOff /\ ReadOff /\ NetOff /\ UpOff /\ MainOff /\ LockOff /\ ChildOff /\ LogOff /\ WaitOff /\ HealthOff /\ RequestOff /\ PollOff /\ VerifyOff /\ ModeOff

\* The uploader process, one request after the other.
SpecFile == InitFile /\ [][FileNext]_vars

InitLog == LogInit /\ AckOff /\ ReadOff /\ NetOff /\ UpOff /\ MainOff /\ LockOff /\ ChildOff /\ FileOff /\ WaitOff /\ HealthOff /\ RequestOff /\ PollOff /\ VerifyOff /\ ModeOff

\* The sessions of one run and the log file they write.
SpecLog == InitLog /\ [][LogNext]_vars

InitWait == WaitInit /\ AckOff /\ ReadOff /\ NetOff /\ UpOff /\ MainOff /\ LockOff /\ ChildOff /\ FileOff /\ LogOff /\ HealthOff /\ RequestOff /\ PollOff /\ VerifyOff /\ ModeOff

\* One wait_regex call.
SpecWait == InitWait /\ [][WaitNext]_vars

InitHealth == HealthInit /\ AckOff /\ ReadOff /\ NetOff /\ UpOff /\ MainOff /\ LockOff /\ ChildOff /\ FileOff /\ LogOff /\ WaitOff /\ RequestOff /\ PollOff /\ VerifyOff /\ ModeOff

\* One wait_health_reachable call.
SpecHealth == InitHealth /\ [][HealthNext]_vars

InitRequest == RequestInit /\ AckOff /\ ReadOff /\ NetOff /\ UpOff /\ MainOff /\ LockOff /\ ChildOff /\ FileOff /\ LogOff /\ WaitOff /\ HealthOff /\ PollOff /\ VerifyOff /\ ModeOff

\* The calls of request() that request_sd_busy_aware makes for one operation.
SpecRequest == InitRequest /\ [][RequestNext]_vars

InitVerify == VerifyInit /\ AckOff /\ ReadOff /\ NetOff /\ UpOff /\ MainOff /\ LockOff /\ ChildOff /\ FileOff /\ LogOff /\ WaitOff /\ HealthOff /\ RequestOff /\ PollOff /\ ModeOff

\* One verify_remote_file call.
SpecVerify == InitVerify /\ [][VerifyNext]_vars

InitMode == ModeInit /\ AckOff /\ ReadOff /\ NetOff /\ UpOff /\ MainOff /\ LockOff /\ ChildOff /\ FileOff /\ LogOff /\ WaitOff /\ HealthOff /\ RequestOff /\ PollOff /\ VerifyOff

\* MODE UPLOAD OFF and MODE UPLOAD ON at the head of a cycle.
SpecMode == InitMode /\ [][ModeNext]_vars

(***************************************************************************)
(* Claims                                                                  *)
(***************************************************************************)
\* The reply shapes of the MODE command, by the console's reply grammar.
IsOkReply(line) == line = <<AckTag, "OK">>
IsErrTimeout(line) == line = <<AckTag, "ERR", "reason=timeout">>
IsErrOther(line) ==
    /\ Len(line) >= 2
    /\ line[1] = AckTag
    /\ line[2] = "ERR"
    /\ ~IsErrTimeout(line)

\* C1: wait_mode_ack issues the command at most `attempts` times, and it
\* returns True exactly when a "<tag> OK" reply was matched for one of its
\* issues; that reply is the one of the last issue and the first of its kind.
\* It returns False in every run where no issue was answered by "<tag> OK".
C1_AckTrueIffOk ==
    /\ a_sent <= a_attempts
    /\ Len(a_hist) <= a_sent
    /\ a_pc = "done" =>
        /\ a_result \in {"true", "false"}
        /\ Len(a_hist) = a_sent
        /\ a_result = "true" <=> \E k \in 1..Len(a_hist) : IsOkReply(a_hist[k])
        /\ a_result = "true" =>
            /\ IsOkReply(a_hist[Len(a_hist)])
            /\ \A k \in 1..(Len(a_hist) - 1) : ~IsOkReply(a_hist[k])

\* A run that returned True on a re-issue, after an issue that got no OK.
C1_Witness ==
    /\ a_pc = "done"
    /\ a_result = "true"
    /\ Len(a_hist) >= 2
    /\ a_hist[1] = NoLine

\* C2: an ERR reply with reason=timeout never ends the loop while attempts
\* remain: the command is issued again, after a sleep.  Any other ERR reply
\* ends the function at once with False, and no further command is sent.
C2_ErrTimeoutTransient ==
    \A k \in 1..Len(a_hist) :
        /\ (IsErrTimeout(a_hist[k]) /\ k < a_attempts) =>
            /\ ~(a_pc = "done" /\ Len(a_hist) = k)
            /\ Len(a_sendlog) > k => a_sendlog[k + 1] > a_sendlog[k]
        /\ IsErrOther(a_hist[k]) =>
            /\ k = Len(a_hist)
            /\ a_pc = "done"
            /\ a_result = "false"
            /\ a_sent = k

\* A timeout ERR was retried, and the retry was answered by a fatal ERR.
C2_Witness ==
    /\ a_pc = "done"
    /\ Len(a_hist) >= 2
    /\ IsErrTimeout(a_hist[1])
    /\ IsErrOther(a_hist[Len(a_hist)])
    /\ Len(a_sendlog) = Len(a_hist)

\* The lines of a byte string taken as a whole: it is cut at every CR and
\* LF, each piece is stripped of blanks, and empty pieces are dropped.  The
\* piece after the last terminator is not a line yet.
RECURSIVE WholeLines(_, _, _)
WholeLines(s, cur, acc) ==
    IF s = <<>> THEN [lines |-> acc, pending |-> cur]
    ELSE IF Head(s) \in {"CR", "LF"}
         THEN WholeLines(Tail(s), <<>>,
                         IF Strip(cur) = <<>> THEN acc ELSE Append(acc, Strip(cur)))
         ELSE WholeLines(Tail(s), Append(cur, Head(s)), acc)

\* C3: whatever the split of the stream into read chunks, the lines returned
\* over the calls so far are the non-empty lines of the bytes read so far,
\* and the bytes after the last terminator are still in the buffer.
C3_NoPartialLineLost ==
    LET whole == WholeLines(SubSeq(r_stream, 1, r_pos), <<>>, <<>>)
    IN  /\ r_out = whole.lines
        /\ r_rx = whole.pending

\* "AB" then "C\n": exactly one line "ABC".
C3_Witness ==
    /\ r_stream = <<"A", "B", "C", "LF">>
    /\ r_prev = 2
    /\ r_pos = 4
    /\ r_out = << <<"A", "B", "C">> >>
    /\ r_rx = <<>>

\* A sample that counts towards readiness.
Good(m) == m # NoSample /\ m.listening = 1 /\ m.ip # ZeroIp

C5_SecondMkdirNeverRaises ==
    (u_job = "mkdir_twice" /\ Len(u_outs) = 2) => u_outs[2] = "ok"

\* C5 amended: the second mkdir of the same directory completes without
\* raising exactly when the device's final answer to the repeated
\* POST /mkdir is a 2xx response.
C5_SecondMkdirOkOn2xx ==
    (u_job = "mkdir_twice" /\ Len(u_outs) = 2) =>
        (u_outs[2] = "ok" <=> u_last = "200")

\* Both invocations returned, the second after a retry.
C5_Witness ==
    /\ u_job = "mkdir_twice"
    /\ u_outs = <<"ok", "ok">>
    /\ u_a >= 1
    /\ u_pc = "done"

\* C6: against a server that answers every request with "409 ... sd busy"
\* the operation ends by raising the 409 failure, and an attempt beyond the
\* attempt count is made only while the budget has not elapsed: with the
\* sleeps of 0.25 s * attempt between attempts, attempt number a is reached
\* only if a < busy_retries or 5*a*(a-1)/2 time units are below the budget.
C6_BusyRetryBounded ==
    /\ [](u_srv = "always409" =>
            (u_a < BusyAttempts \/ BusyDelay * u_a * (u_a - 1) < 2 * u_budget))
    /\ (u_srv = "always409" =>
            <>(u_pc = "done" /\ u_outs = <<"raise_409busy">>))

\* The budget outlasted the attempt count, and the 409 was raised then.
C6_Witness ==
    /\ u_srv = "always409"
    /\ u_pc = "done"
    /\ u_outs = <<"raise_409busy">>
    /\ u_a >= BusyAttempts

\* C8: when every phase of every cycle succeeds, main returns 0 after exactly
\* `cycles` cycles; the sample sequences hold one row per cycle, in cycle
\* order, and a row is appended only after that cycle's upload and its
\* verification both succeeded.
C8_OneRowPerCompletedCycle ==
    /\ Len(mn.rows) <= mn.cycles
    /\ \A i \in 1..Len(mn.rows) :
          /\ mn.rows[i].cycle = i
          /\ mn.rows[i].uploaded
          /\ mn.rows[i].verified
    /\ (mn.exit = 0 \/ (mn.handled = FALSE /\ mn.pc \in {"fin_term", "fin_close", "fin_release"}))
          => Len(mn.rows) = mn.cycles
    /\ (mn.pc = "exit" /\ mn.cfg = "ok" /\ mn.fails = 0)
          => (mn.exit = 0 /\ Len(mn.rows) = mn.cycles /\ mn.cycle = mn.cycles + 1)

C8_Witness ==
    /\ mn.pc = "exit"
    /\ mn.fails = 0
    /\ mn.exit = 0
    /\ mn.cycles = MaxCycles
    /\ Len(mn.rows) = MaxCycles

\* C9: if the device never answers PING, serial_preflight opens the port and
\* probes exactly 3 times, then raises "serial preflight failed: <reason>"
\* with the reason of the last attempt, and the process exits with code 1.
C9_PreflightGivesUpAfterThree ==
    /\ mn.err.kind = "serial preflight failed"
          => /\ mn.opens = 3
             /\ mn.err.reason = mn.pf_last
             /\ mn.err.reason \in {"no PONG", "device stuck in ROM download boot", "OSError"}
             /\ mn.pfcon = "none"
             /\ (mn.pc = "exit" => mn.exit = 1)
    /\ (mn.pc = "exit" /\ mn.pongs = 0 /\ mn.opens >= 1 /\ ~mn.openfail)
          => (mn.err.kind = "serial preflight failed" /\ mn.exit = 1)

C9_Witness ==
    /\ mn.pc = "exit"
    /\ mn.pongs = 0
    /\ mn.opens = 3
    /\ mn.err = [kind |-> "serial preflight failed", reason |-> "no PONG"]
    /\ mn.exit = 1

\* C10, as stated: when the remote file path exceeds 64 characters, no HTTP
\* request (health probe or upload) has been issued in the run by the time
\* the length check rejects the path.
C10_NoHttpBeforeLengthCheck ==
    mn.err.kind = "remote path exceeds SD_PATH_MAX(64)" => ~mn.netio

\* C11, as stated: a missing ESPFLASH_PORT or an invalid numeric setting
\* makes the process exit with code 2, never 1.
C11_ConfigErrorExitsTwo ==
    (mn.pc = "exit" /\ mn.cfg \in {"no_port", "bad_int"}) => mn.exit = 2

\* C12, as stated: once the lock has been acquired, every exit path leaves
\* the serial session closed and the run lock released.
C12_CleanupOnEveryExit ==
    (mn.pc = "exit" /\ mn.acquired) => (mn.lock = "released" /\ mn.console # "open")

\* A process is past RunLock.acquire: it holds the flock and has not yet
\* given it up.
PastAcquire(p) == lk.pc[p] \in {"write", "run"} \/ (lk.pc[p] \in {"release", "unlock"} /\ lk.saw[p] = Nobody)

C14_OneInstanceDrivesDevice ==
    \A p, q \in Procs : (lk.pc[p] = "run" /\ lk.pc[q] = "run") => p = q

\* C15, as stated: for a SIGINT or SIGTERM delivered at any point of
\* run_upload, no upload child is still running when the orchestrator
\* process exits.
C15_NoChildAfterExit ==
    ch.pc = "exit" => ch.child # "running"

\* The requests of the legacy protocol for a file of `size` bytes, in order:
\* upload_begin, the chunks by offset, upload_commit.
RECURSIVE ChunkTargets(_, _)
ChunkTargets(off, size) ==
    IF off >= size THEN <<>>
    ELSE <<[t |-> "PUT /upload_chunk", off |-> off,
            len |-> IF size - off < ChunkSize THEN size - off ELSE ChunkSize,
            size |-> 0]>>
         \o ChunkTargets(off + ChunkSize, size)

LegacyTargets(size) ==
    <<[t |-> "POST /upload_begin", off |-> 0, len |-> 0, size |-> size]>>
    \o ChunkTargets(0, size)
    \o <<[t |-> "POST /upload_commit", off |-> 0, len |-> 0, size |-> 0]>>

TargetOf(rq) == [t |-> rq.t, off |-> rq.off, len |-> rq.len, size |-> rq.size]

\* The requests of upload_file after the PUT and the abort that follows it,
\* without the abort that follows a failure.
LegacyLog ==
    LET rest == SubSeq(fl.log, 3, Len(fl.log))
    IN  IF Len(rest) > 0 /\ rest[Len(rest)].t = "POST /upload_abort"
        THEN SubSeq(rest, 1, Len(rest) - 1)
        ELSE rest

\* C16: the first request of upload_file is the single-shot PUT /upload;
\* anything follows it only after it failed, and then: POST /upload_abort,
\* POST /upload_begin with the file size, PUT /upload_chunk for each
\* chunk in file order, POST /upload_commit, each request sent only after
\* all legacy requests before it got a 2xx response.
C16_PutFirstThenLegacyInOrder ==
    /\ Len(fl.log) >= 1 => fl.log[1].t = "PUT /upload"
    /\ Len(fl.log) >= 2 =>
          /\ fl.log[1].reply # "200"
          /\ fl.log[2].t = "POST /upload_abort"
    /\ Len(LegacyLog) <= Len(LegacyTargets(fl.size))
    /\ \A i \in 1..Len(LegacyLog) :
          /\ TargetOf(LegacyLog[i]) = LegacyTargets(fl.size)[i]
          /\ i < Len(LegacyLog) => LegacyLog[i].reply = "200"

\* upload_file returned after a file of two chunks went through the legacy
\* protocol.
C16_Witness ==
    /\ fl.ret = "return"
    /\ fl.size > ChunkSize
    /\ Len(fl.log) = 2 + Len(LegacyTargets(fl.size))
    /\ fl.log[Len(fl.log)].t = "POST /upload_commit"

\* C17: when a chunk or the commit fails, POST /upload_abort is sent right
\* after the failed request and before upload_file raises, and what
\* upload_file raises is the error of the failed request, whatever the abort
\* request ended with.
C17_AbortBeforeChunkErrorPropagates ==
    /\ fl.pc = "fail_abort" => (fl.ret = "none" /\ fl.log[Len(fl.log)] = fl.err)
    /\ (fl.ret = "raise" /\ fl.err.t \in {"PUT /upload_chunk", "POST /upload_commit"}) =>
          /\ Len(fl.log) >= 2
          /\ fl.log[Len(fl.log)].t = "POST /upload_abort"
          /\ fl.log[Len(fl.log) - 1] = fl.err
          /\ fl.raised = fl.err
          /\ fl.err.reply # "200"

\* A chunk failed and the abort sent for it failed too.
C17_Witness ==
    /\ fl.ret = "raise"
    /\ fl.err.t = "PUT /upload_chunk"
    /\ fl.err.off > 0
    /\ fl.log[Len(fl.log)].t = "POST /upload_abort"
    /\ fl.log[Len(fl.log)].reply = "conn"
    /\ fl.raised = fl.err

\* upload_begin, every chunk and upload_commit all got a 2xx response.
LegacyAllOk ==
    /\ Len(LegacyLog) = Len(LegacyTargets(fl.size))
    /\ \A i \in 1..Len(LegacyLog) :
          /\ TargetOf(LegacyLog[i]) = LegacyTargets(fl.size)[i]
          /\ LegacyLog[i].reply = "200"

\* C18: upload_file returns normally only if the PUT got a 2xx response or
\* begin, every chunk and commit all did; otherwise it raises; and the
\* process exits 0 (and prints "Upload complete.") only if every request of
\* main got a 2xx response and every upload_file call returned.
C18_NoFailureDropped ==
    /\ fl.ret = "return" =>
          \/ (Len(fl.log) = 1 /\ fl.log[1].reply = "200")
          \/ (Len(fl.log) >= 2 /\ fl.log[1].reply # "200" /\ LegacyAllOk)
    /\ fl.pc = "after_file" => fl.ret \in {"return", "raise"}
    /\ fl.ret = "raise" => (fl.pc \in {"after_file", "exit"} /\ fl.exit # 0 /\ ~fl.complete)
    /\ (fl.pc = "exit" /\ fl.exit = 0) =>
          /\ \A i \in 1..Len(fl.mlog) : fl.mlog[i].reply = "200"
          /\ CountOf(fl.mlog, "DELETE /rm") = fl.nrm
          /\ fl.has_src =>
                /\ fl.complete
                /\ fl.file = fl.nfiles
                /\ fl.ret = "return"
                /\ fl.skipmk \/ CountOf(fl.mlog, "POST /mkdir") = fl.ndirs
    /\ fl.complete => (fl.exit = 0 /\ fl.has_src)

\* The last file went through the fallback after a failed PUT, and the
\* process reported success.
C18_Witness ==
    /\ fl.pc = "exit"
    /\ fl.exit = 0
    /\ fl.complete
    /\ fl.nfiles = MaxFiles
    /\ Len(fl.log) >= 2
    /\ fl.log[1].reply = "500"
    /\ LegacyAllOk

\* C19, as stated: every line received from the device during the run is
\* in the session log, and stays there, across preflight retries and the
\* re-opening of the session.
C19_AllReceivedLinesInLog ==
    lg.file = lg.rcvd

\* C20, as stated: when wait_regex returns, every line its _read_lines
\* calls took out of the receive buffer is in the returned `seen` list.
C20_NoLineConsumedUnreported ==
    wt.pc = "done" => wt.seen = wt.taken

\* C21, as stated: with the connect deadline before the listen deadline,
\* wait_network_ready ends with the listen-timeout error only when some
\* sample reported association; when none did, also when no poll was
\* answered at all, it ends with the connect-timeout error.
C21_ListenTimeoutOnlyAfterAssociation ==
    (n_ct < n_lt /\ n_result = "listen_timeout") => n_first # -1

\* The position of an address in a list, 0 when it is not there.
IndexIn(x, s) == IF InList(x, s) THEN CHOOSE i \in 1..Len(s) : s[i] = x ELSE 0

\* C22: the candidates of a tick are the device-reported address (first)
\* and the discovered ones in their order, each once, never "" or 0.0.0.0;
\* they are probed in that order up to the first that answers 200, which is
\* what wait_health_reachable returns; it raises only with no candidate
\* having answered.
C22_ReturnsFirstHealthyCandidate ==
    LET c == hl.candidates
    IN  /\ \A i, j \in 1..Len(c) : i # j => c[i] # c[j]
        /\ \A i \in 1..Len(c) : c[i] # "" /\ c[i] # ZeroIp
        /\ hl.ticks >= 1 =>
              /\ \A x \in Ips \ {ZeroIp} :
                    InList(x, c) <=> (x = hl.metrics_ip \/ InList(x, hl.discovered_ips))
              /\ InList(hl.metrics_ip, c) => c[1] = hl.metrics_ip
              /\ \A i, j \in 1..Len(c) :
                    (i < j /\ c[i] # hl.metrics_ip /\ c[j] # hl.metrics_ip) =>
                        IndexIn(c[i], hl.discovered_ips) < IndexIn(c[j], hl.discovered_ips)
        /\ Len(hl.probes) <= Len(c)
        /\ \A i \in 1..Len(hl.probes) :
              /\ hl.probes[i].ip = c[i]
              /\ hl.probes[i].ok <=> (c[i] \in hl.up)
              /\ i < Len(hl.probes) => ~hl.probes[i].ok
        /\ hl.result = "return" =>
              /\ Len(hl.probes) >= 1
              /\ hl.probes[Len(hl.probes)] = [ip |-> hl.ret, ok |-> TRUE]
        /\ hl.result # "return" =>
              /\ hl.ret = ""
              /\ Len(hl.probes) = IF hl.ticks >= 1 THEN Len(c) ELSE 0
              /\ \A i \in 1..Len(hl.probes) : ~hl.probes[i].ok
        /\ hl.pc = "done" => hl.result \in {"return", "raise"}

\* A discovered address answered after the device-reported one did not.
C22_Witness ==
    /\ hl.result = "return"
    /\ Len(hl.probes) = 2
    /\ hl.probes[1] = [ip |-> hl.metrics_ip, ok |-> FALSE]
    /\ hl.ret # hl.metrics_ip
    /\ InList(ZeroIp, hl.discovered_ips)

\* C23: a run_upload whose communicate timed out has sent SIGTERM to the
\* child's group, has sent SIGKILL exactly when the child had not exited
\* by the end of the grace period, leaves no running child and raises
\* 'upload subprocess timed out'; outside run_upload, whichever way it
\* was left, ACTIVE_UPLOAD_PROCESS is empty.
C23_TimeoutKillsAndSlotCleared ==
    /\ ch.pc \in {"main", "fin", "fin_rest", "exit"} => ~ch.slot
    /\ ch.term <=> ch.err = "upload subprocess timed out"
    /\ ch.kill <=> ch.grace = "running"
    /\ ch.kill => ch.term
    /\ ch.term => ch.child # "running"
    /\ (ch.pc = "main" /\ ch.calls >= 1 /\ ch.err = "none") =>
          (ch.child = "exited" /\ ch.rc = 0)

\* A child that ignored SIGTERM was killed, and run_upload has returned
\* to main with the timeout error.
C23_Witness ==
    /\ ch.pc = "main"
    /\ ch.err = "upload subprocess timed out"
    /\ ch.kill
    /\ ~ch.slot
    /\ ch.child = "killed"

\* C24, as stated: while a process is between the end of its acquire and
\* its own release, the lock file holds that process's record; no step of
\* another process changes it.
C24_LockFileKeepsHolderRecord ==
    \A p \in Procs : lk.pc[p] = "run" => lk.content[PathOf(p)] = p

\* C25: request() makes at most max(1, retries) attempts; every attempt but
\* the last ended in a connection-class error and was followed by a sleep
\* of retry_delay times its number; every retry sends the body from
\* offset 0; a non-2xx response ends the call at once with that error, and
\* a connection error is raised only on the last attempt allowed.
C25_RequestRetriesOnlyConnectionErrors ==
    LET n == Len(rqst.log)
    IN  /\ n <= Max(1, rqst.retries)
        /\ \A i \in 1..n :
              /\ i < n => rqst.log[i].out = "conn"
              /\ i > 1 => rqst.log[i].start = 0
        /\ Len(rqst.slept) = (IF rqst.pc = "try" THEN n ELSE n - 1)
        /\ \A i \in 1..Len(rqst.slept) : rqst.slept[i] = RetryDelay * i
        /\ (n >= 1 /\ rqst.log[n].out # "conn") => rqst.pc = "done"
        /\ rqst.result = "return" <=> (n >= 1 /\ rqst.log[n].out = "2xx")
        /\ rqst.result = "raise_status" <=> (n >= 1 /\ rqst.log[n].out = "non2xx")
        /\ rqst.result = "raise_conn" <=>
              (n = Max(1, rqst.retries) /\ rqst.log[n].out = "conn")
        /\ rqst.pc = "done" <=> rqst.result # "none"

\* A file body was sent in part, the connection failed twice, and the
\* third attempt sent it from the start and got a 2xx response.
C25_Witness ==
    /\ rqst.seekable
    /\ rqst.size = MaxBody
    /\ rqst.result = "return"
    /\ Len(rqst.log) = 3
    /\ rqst.slept = <<RetryDelay, 2 * RetryDelay>>

\* C26: can_retry is "attempts left or budget left", evaluated at the top
\* of the round; every "409 ... sd busy" end of the operation is followed by
\* the best-effort POST /upload_abort, whose end is followed by the retry
\* sleep exactly when can_retry held and by raising the 409 otherwise; the
\* 409 is raised only with at least busy_retries attempts made and the
\* budget elapsed before the last one.
C26_BusyAbortThenRetryWhileAllowed ==
    /\ [][u_pc = "top" =>
            u_can' = ((u_a + 1 < Max(1, CurOp.busy_retries)) \/ u_left > 0)]_vars
    /\ [][(u_pc = "req" /\ u_ctx = "main" /\ u_pc' # "reqsleep"
             /\ u_last' = "409busy") =>
            (u_pc' = "req" /\ u_ctx' = "abort" /\ u_k' = 0 /\ u_outs' = u_outs)]_vars
    /\ [][(u_pc = "req" /\ u_ctx = "abort" /\ u_pc' # "reqsleep") =>
            IF u_can THEN u_pc' = "bsleep" /\ u_outs' = u_outs /\ u_a' = u_a
            ELSE u_pc' = "next" /\ u_outs' = Append(u_outs, "raise_409busy")]_vars
    /\ []((u_pc = "req" /\ u_ctx = "abort") => u_last = "409busy")
    /\ []((u_outs # <<>> /\ u_outs[Len(u_outs)] = "raise_409busy") =>
            (u_pc \in {"next", "done"} /\ u_last = "409busy" /\ ~u_can
             /\ u_a + 1 >= CurOp.busy_retries))

\* A PUT against a device that also gave other answers was given up with
\* the 409 error after more than busy_retries attempts.
C26_Witness ==
    /\ u_srv = "any"
    /\ u_job = "put"
    /\ u_pc = "done"
    /\ u_outs = <<"raise_409busy">>
    /\ u_a + 1 > PutOp.busy_retries

\* C27: when the operation ends with "408 Request Timeout" or a connection
\* failure and can_retry holds, the recovery wait starts with the window
\* min(recovery timeout, remaining budget); GET /health is polled while the
\* window has not expired and the last poll was not answered; the operation
\* is issued again only after a poll was answered or the window expired;
\* without can_retry the failure is raised, and any other non-2xx response
\* is raised at once.
C27_HealthPolledBeforeReissue ==
    /\ [][(u_pc = "req" /\ u_ctx = "main" /\ u_pc' # "reqsleep"
             /\ u_last' \in {"408", "conn"}) =>
            IF u_can
            THEN /\ u_wleft' = Min(RecoveryWindow, u_left')
                 /\ u_pc' = (IF u_wleft' > 0 THEN "recov" ELSE "bsleep")
                 /\ uh' = [polls |-> 0, answered |-> FALSE]
                 /\ u_outs' = u_outs
            ELSE /\ u_pc' = "next"
                 /\ u_outs' = Append(u_outs, "raise_" \o u_last')]_vars
    /\ [][u_pc = "recov" =>
            IF u_wleft > 0 THEN u_pc' = "req" /\ u_ctx' = "recover"
            ELSE u_pc' = "bsleep"]_vars
    /\ [][(u_pc = "req" /\ u_ctx = "recover" /\ u_pc' # "reqsleep") =>
            /\ uh'.polls = uh.polls + 1
            /\ u_pc' = (IF uh'.answered THEN "bsleep" ELSE "recov")]_vars
    /\ [][(u_pc = "bsleep" /\ u_pc' = "top" /\ u_last \in {"408", "conn"}) =>
            (uh.answered \/ u_wleft = 0)]_vars
    /\ []((u_pc \in {"recov", "reqsleep", "req"} /\ u_ctx = "recover") =>
            (u_last \in {"408", "conn"} /\ u_can /\ ~uh.answered))
    /\ [][(u_pc = "req" /\ u_ctx = "main" /\ u_pc' # "reqsleep"
             /\ u_last' = "other") =>
            (u_pc' = "next" /\ u_outs' = Append(u_outs, "raise_other"))]_vars

\* A PUT that timed out was issued again after the second /health poll was
\* answered, and then succeeded.
C27_Witness ==
    /\ u_job = "put"
    /\ u_pc = "done"
    /\ u_outs = <<"ok">>
    /\ u_a >= 1
    /\ uh = [polls |-> 2, answered |-> TRUE]

\* The states of main after an exception left the cycle loop.
Aborted ==
    /\ mn.pc \in {"except", "fin_term", "fin_close", "fin_release", "exit"}
    /\ mn.exit # 0
    /\ mn.err # NoErr

\* The phases that follow MODE UPLOAD ON in a cycle.
LaterPhases ==
    {"wifiset", "net_ready", "health", "health_re", "upload", "upload_fail", "verify"}

\* The phases every cycle begins with, in order.
CycleHead(cycle) ==
    (IF cycle > 1 THEN <<"mode_off">> ELSE <<>>)
        \o <<"mode_on", "wifiset", "net_ready", "health">>

\* The cycle the phases of mn.ph belong to: `cycle` has moved on once the
\* cycle was recorded.
PhCycle == IF InList("verify", mn.ph) THEN mn.cycle - 1 ELSE mn.cycle

\* The order of the phases of a cycle: the cycle begins with MODE OFF (not
\* in the first cycle), MODE ON, WIFISET, network ready, health; an upload
\* attempt directly follows a successful health probe; verification
\* directly follows the successful upload attempt and is the last phase,
\* and the cycle's row is recorded with it.
PhaseOrder ==
    LET ph == mn.ph
        head == CycleHead(PhCycle)
    IN  /\ \A i \in 1..Len(ph) :
              /\ i <= Len(head) =>
                    (ph[i] = head[i] \/ (ph[i] = "mode_on_nack" /\ head[i] = "mode_on"))
              /\ ph[i] \in {"upload", "upload_fail"} =>
                    (i > 1 /\ ph[i - 1] \in {"health", "health_re"})
              /\ ph[i] = "upload" => i >= Len(ph) - 1
              /\ ph[i] = "verify" => (i = Len(ph) /\ i > 1 /\ ph[i - 1] = "upload")
        /\ mn.pc = "upload" =>
              (ph # <<>> /\ ph[Len(ph)] \in {"health", "health_re"})
        /\ mn.pc \in {"post_upload", "verify"} =>
              (ph # <<>> /\ ph[Len(ph)] = "upload")
        /\ Len(mn.rows) = (IF mn.cfg = "ok" /\ mn.acquired THEN mn.cycle - 1 ELSE 0)
        /\ InList("verify", ph) => Len(mn.rows) = PhCycle

\* C28, as stated: the phases of a cycle occur in the fixed order, and no
\* MODE UPLOAD ON that was not acknowledged is followed by a later phase.
C28_PhaseOrderAnyNackAborts ==
    /\ PhaseOrder
    /\ \A i \in 1..Len(mn.ph) :
          mn.ph[i] \in {"mode_on_nack", "rec_mode_on_nack", "rec_mode_on2_nack"} =>
              /\ Aborted
              /\ \A j \in (i + 1)..Len(mn.ph) : mn.ph[j] \notin LaterPhases

\* C28, amended: the phases of a cycle occur in the fixed order; a MODE
\* UPLOAD ON at the start of a cycle, or the one after the serial preflight
\* of a recovery, that is not acknowledged aborts the run before any later
\* phase; an unacknowledged MODE UPLOAD ON of the recovery toggle is
\* followed by the serial preflight.
C28_PhaseOrderCycleNackAborts ==
    /\ PhaseOrder
    /\ \A i \in 1..Len(mn.ph) :
          /\ mn.ph[i] \in {"mode_on_nack", "rec_mode_on2_nack"} =>
                (i = Len(mn.ph) /\ Aborted)
          /\ (mn.ph[i] = "rec_mode_on_nack" /\ i < Len(mn.ph)) =>
                mn.ph[i + 1] = "preflight"

\* The second cycle ran through all its phases, with a recovery in which
\* MODE UPLOAD ON was acknowledged only after the serial preflight.
C28_Witness ==
    /\ mn.pc = "exit"
    /\ mn.exit = 0
    /\ mn.ph = <<"mode_off", "mode_on", "wifiset", "net_ready", "health",
                 "upload_fail", "health_re_fail", "rec_mode_off",
                 "rec_mode_on_nack", "preflight", "rec_mode_on2",
                 "wifiset", "net_ready", "health", "upload", "verify">>

\* The upload attempts among the phases of the cycle, by position.
UploadAttempts == {i \in 1..Len(mn.ph) : mn.ph[i] \in {"upload", "upload_fail"}}

\* C29: a cycle makes at most operation_retries upload attempts; a failed
\* attempt that is not the last one permitted is followed by the health
\* recheck, and every further attempt directly follows a successful health
\* probe; the failure of the last attempt permitted is the last phase of
\* the run, which ends with exit code 1.
C29_UploadAttemptsBounded ==
    /\ Cardinality(UploadAttempts) <= mn.retries
    /\ mn.pc = "upload" => mn.attempt = Cardinality(UploadAttempts) + 1
    /\ \A i \in UploadAttempts :
          /\ i > 1 /\ mn.ph[i - 1] \in {"health", "health_re"}
          /\ mn.ph[i] = "upload_fail" =>
                IF Cardinality({j \in UploadAttempts : j <= i}) < mn.retries
                THEN /\ i < Len(mn.ph) => mn.ph[i + 1] \in {"health_re", "health_re_fail"}
                     /\ i = Len(mn.ph) => mn.pc \in {"health_re", "except", "fin_term",
                                                      "fin_close", "fin_release", "exit"}
                ELSE /\ i = Len(mn.ph)
                     /\ Aborted
                     /\ mn.err.kind = "upload failed"
                     /\ mn.pc = "exit" => mn.exit = 1

\* Both permitted attempts of the first cycle failed, with a successful
\* health recheck in between, and main returned 1.
C29_Witness ==
    /\ mn.retries = 2
    /\ mn.pc = "exit"
    /\ mn.exit = 1
    /\ mn.ph = <<"mode_on", "wifiset", "net_ready", "health", "upload_fail",
                 "health_re", "upload_fail">>

\* C30: the mode toggle of a recovery directly follows a failed health
\* recheck after a failed upload attempt, and a failed recheck is followed
\* by nothing else; the serial preflight of a recovery directly follows a
\* MODE UPLOAD ON of that toggle that was not acknowledged; after the
\* acknowledged MODE UPLOAD ON of either escalation come WIFISET, network
\* ready and health, in this order, before the next upload attempt.
C30_RecoveryEscalatesInOrder ==
    LET ph == mn.ph
        n == Len(ph)
    IN  /\ \A i \in 1..n :
              /\ ph[i] = "health_re_fail" =>
                    /\ i > 1 /\ ph[i - 1] = "upload_fail"
                    /\ i < n => ph[i + 1] = "rec_mode_off"
              /\ ph[i] = "rec_mode_off" => (i > 1 /\ ph[i - 1] = "health_re_fail")
              /\ ph[i] \in {"rec_mode_on", "rec_mode_on_nack"} =>
                    (i > 1 /\ ph[i - 1] = "rec_mode_off")
              /\ ph[i] = "preflight" => (i > 1 /\ ph[i - 1] = "rec_mode_on_nack")
              /\ ph[i] \in {"rec_mode_on2", "rec_mode_on2_nack"} =>
                    (i > 1 /\ ph[i - 1] = "preflight")
              /\ ph[i] \in {"rec_mode_on", "rec_mode_on2"} =>
                    /\ i + 1 <= n => ph[i + 1] = "wifiset"
                    /\ i + 2 <= n => ph[i + 2] = "net_ready"
                    /\ i + 3 <= n => ph[i + 3] = "health"
                    /\ i + 4 <= n => ph[i + 4] \in {"upload", "upload_fail"}
              /\ (ph[i] \in {"upload", "upload_fail"} /\ i > Len(CycleHead(PhCycle)) + 1
                    /\ ph[i - 1] = "health") =>
                    ph[i - 4] \in {"rec_mode_on", "rec_mode_on2"}
        /\ (mn.pc \in {"pf_open", "pf_probe", "pf_close"} /\ mn.pf_ret = "rec") =>
              (n >= 1 /\ ph[n] = "rec_mode_on_nack")
        /\ mn.pc \in {"rec_mode_off", "rec_mode_on", "rec_mode_on2", "rec_wifiset"} =>
              InList("health_re_fail", ph)

\* The toggle alone recovered the first cycle: the health recheck failed,
\* both mode commands were acknowledged, and the second attempt succeeded.
C30_Witness ==
    /\ mn.pc = "exit"
    /\ mn.exit = 0
    /\ mn.cycles = 1
    /\ mn.ph = <<"mode_on", "wifiset", "net_ready", "health", "upload_fail",
                 "health_re_fail", "rec_mode_off", "rec_mode_on",
                 "wifiset", "net_ready", "health", "upload", "verify">>

\* C31: verify_remote_file returns True only on an SDWAIT DONE line with
\* status=ok and code=ok whose id is that of an SDWAIT it issued, and every
\* SDWAIT it issued carries an id taken from an SDREQ line; SDFATSTAT ERR
\* ends it with False at once, SDFATSTAT BUSY leads to the next attempt,
\* and it returns False otherwise only after 8 SDFATSTAT commands.
C31_VerifyTrueOnlyOnDoneOk ==
    /\ vf.n <= StatAttempts
    /\ \A i \in 1..Len(vf.waits) : vf.waits[i].id \in vf.reqs
    /\ vf.ret = "True" =>
          /\ vf.pc = "done"
          /\ vf.done.t = "DONE" /\ vf.done.ok
          /\ \E i \in 1..Len(vf.waits) : vf.waits[i].id = vf.done.id
    /\ vf.stat.t = "STAT_ERR" => (vf.pc = "done" /\ vf.ret = "False")
    /\ (vf.pc = "done" /\ vf.ret = "False") =>
          (vf.stat.t = "STAT_ERR" \/ vf.n = StatAttempts)
    /\ vf.pc = "done" <=> vf.ret # "none"
    /\ (vf.pc = "w_req") => vf.stat.t = "STAT_OK"

\* The first SDFATSTAT was answered BUSY, the second led to SDWAIT and the
\* file was verified.
C31_Witness ==
    /\ vf.ret = "True"
    /\ vf.n = 2
    /\ Len(vf.waits) = 1
    /\ ~vf.lost

\* C35, as stated: no SDREQ line that follows its SDFATSTAT OK is lost, in
\* the same read batch or a later one, and every SDWAIT carries the id the
\* device gave the latest SDFATSTAT, never one of an earlier attempt.
C35_SdreqNeverLostNorStale ==
    /\ ~vf.lost
    /\ \A i \in 1..Len(vf.waits) : vf.waits[i].id = vf.waits[i].cur

\* C32: the session main holds and the session serial_preflight is
\* probing are never both open; preflight opens a session only when none
\* is open, at most 3 times per call, requests the reset only when it is
\* allowed and only after closing; the session main holds answered PING
\* with PONG.
C32_OneSerialSession ==
    /\ ~(mn.console = "open" /\ mn.pfcon = "open")
    /\ mn.pc = "pf_open" => (mn.console # "open" /\ mn.pfcon = "none")
    /\ mn.pc \in {"pf_probe", "pf_close"} => (mn.pfcon = "open" /\ mn.console # "open")
    /\ mn.opens <= PreflightAttempts /\ mn.pf_attempt <= PreflightAttempts
    /\ mn.pc \in {"pf_open", "pf_probe", "pf_close"} =>
          mn.opens = (IF mn.pc = "pf_open" THEN mn.pf_attempt - 1 ELSE mn.pf_attempt)
    /\ ~mn.allow_reset => mn.resets = 0
    /\ mn.console = "open" => mn.pongs >= 1
    /\ mn.pongs >= 2 => InList("preflight", mn.ph) \/ mn.cycle > 1
    /\ (mn.console = "closed" /\ mn.pc \in {"pf_open", "pf_probe", "pf_close"}) =>
          mn.pf_ret = "rec"

\* The recovery closed the session, and the preflight handed over a new
\* one after a reset and a second attempt.
C32_Witness ==
    /\ mn.pc = "rec_mode_on2"
    /\ mn.console = "open"
    /\ mn.pfcon = "none"
    /\ mn.pongs = 2
    /\ mn.opens = 2
    /\ mn.resets >= 1
\* C33, as stated: every transmission of the request, the re-issues of
\* request_sd_busy_aware included, sends the file from byte 0, so that the
\* body has the announced Content-Length.
C33_EveryTransmissionFromByteZero ==
    \A start \in rqst.starts : start = 0

\* C34, as stated: the OK reply on which wait_mode_ack for MODE UPLOAD ON
\* returns True answers a command of that call, never the MODE UPLOAD OFF
\* sent before it.
C34_AckAnswersOwnCommand ==
    md.onret = "True" => md.acked.cmd = "ON"

\* C36, as stated: when upload_file returns after the legacy protocol, the
\* chunk bodies the device took between upload_begin and upload_commit are
\* the chunks of the file in order, each once.
C36_ChunksDeliveredOnce ==
    (fl.ret = "return" /\ Len(fl.log) >= 2) =>
        LET want == ChunkTargets(0, fl.size)
        IN  /\ Len(fl.dev) = Len(want)
            /\ \A i \in 1..Len(want) : fl.dev[i] = want[i].off
\* C37, as stated: once an upload attempt of a cycle has succeeded the cycle
\* goes on to verification; the error of an earlier failed attempt of the
\* cycle is not raised afterwards, whatever the measured upload_ms.
C37_SuccessNeverReraises ==
    mn.up_ok => mn.err.kind # "upload failed"
\* C38, as stated: wait_network_ready returns readiness only when some
\* sample of the call reported wifi_connected=1, and the connect_ms it
\* returns is the elapsed time of the first such sample, elapsed time 0
\* included.
C38_ReadyOnlyAfterAssociation ==
    n_result = "ready" =>
        /\ n_first >= 0
        /\ n_ret.connect_ms = n_first
\* C40, as stated: a poll without a parsable METRICS NET sample breaks the
\* streak, so readiness is declared at a poll only when the poll right
\* before it, answered or not, also gave listening=1 with the same non-zero
\* IP.
C40_UnansweredPollBreaksStreak ==
    n_result = "ready" =>
        /\ n_p1 # NoSample
        /\ Good(n_p1)
        /\ n_p1.ip = n_p2.ip
\* C39, as stated: the board-info query, its reset to run mode, the opening
\* of the serial port and the rewriting of the payload file happen only
\* while the run holds the lock, so a run that loses the lock has touched
\* neither the device nor the payload.
C39_NothingBeforeLock ==
    /\ mn.unlocked = {}
    /\ mn.lock = "failed" => mn.opens = 0
====
